---- MODULE Spec2Model ----
(***************************************************************************)
(* Shift-status reconciliation of galaxy_api_sync.py: the Shift Extractor, *)
(* the Signup Binder, the Time-Log Correlator, the Shift Status Writer and *)
(* the Orphan Time-Log Synthesizer, over the needs, responses and hours    *)
(* collections and the derived shift_status collection.                    *)
(*                                                                         *)
(* Encoding of Python values:                                              *)
(*   - None / a missing key is 0 for identifiers and timestamps and "" for *)
(*     strings (all of them falsy in the code's truthiness tests);         *)
(*   - timestamps are minutes since an epoch, one calendar day being       *)
(*     MinutesPerDay minutes;                                              *)
(*   - a persisted key (_id) is a typed value: an int or a str, never      *)
(*     equal to each other, as in Python and in MongoDB.                   *)
(***************************************************************************)
EXTENDS Integers, Sequences, FiniteSets, TLC

(***************************************************************************)
(* Bounds of the model.                                                    *)
(***************************************************************************)
MaxHours == 2
MaxResponses == 2
MaxRuns == 2

(***************************************************************************)
(* Strings: str.lower() and the `in` substring test.                       *)
(***************************************************************************)
UpperToLower ==
  [c \in {"A","B","C","D","E","F","G","H","I","J","K","L","M","N","O","P",
          "Q","R","S","T","U","V","W","X","Y","Z"} |->
     CASE c = "A" -> "a" [] c = "B" -> "b" [] c = "C" -> "c" [] c = "D" -> "d"
       [] c = "E" -> "e" [] c = "F" -> "f" [] c = "G" -> "g" [] c = "H" -> "h"
       [] c = "I" -> "i" [] c = "J" -> "j" [] c = "K" -> "k" [] c = "L" -> "l"
       [] c = "M" -> "m" [] c = "N" -> "n" [] c = "O" -> "o" [] c = "P" -> "p"
       [] c = "Q" -> "q" [] c = "R" -> "r" [] c = "S" -> "s" [] c = "T" -> "t"
       [] c = "U" -> "u" [] c = "V" -> "v" [] c = "W" -> "w" [] c = "X" -> "x"
       [] c = "Y" -> "y" [] c = "Z" -> "z"]

RECURSIVE LowerFrom(_, _, _)
\* the characters i..j of s in lower case, by halves
LowerFrom(s, i, j) ==
  IF i > j THEN ""
  ELSE IF i = j
       THEN LET c == SubSeq(s, i, i)
            IN IF c \in DOMAIN UpperToLower THEN UpperToLower[c] ELSE c
       ELSE LET m == (i + j) \div 2
            IN LowerFrom(s, i, m) \o LowerFrom(s, m + 1, j)

\* str.lower()
Lower(s) == LowerFrom(s, 1, Len(s))

\* sub in s
Contains(sub, s) ==
  \E i \in 1..(Len(s) - Len(sub) + 1) : SubSeq(s, i, i + Len(sub) - 1) = sub

(***************************************************************************)
(* Typed values.                                                           *)
(***************************************************************************)
\* an int used as an identifier or as a persisted key
IntKey(n) == [kind |-> "int", i |-> n, s |-> ""]
\* a str used as an identifier or as a persisted key
StrKey(t) == [kind |-> "str", i |-> 0, s |-> t]
\* Python truthiness of an identifier
Truthy(k) == IF k.kind = "int" THEN k.i # 0 ELSE k.s # ""

Digits == <<"0","1","2","3","4","5","6","7","8","9">>

RECURSIVE IntToStr(_)
\* str(n) of a non-negative int, as an f-string formats it
IntToStr(n) ==
  IF n < 10 THEN Digits[n + 1]
  ELSE IntToStr(n \div 10) \o Digits[(n % 10) + 1]

\* value of a duration field that float() cannot parse
Unparsable == -1

\* a Python number or a Python str holding the text of a number
NumVal(x) == [kind |-> "num", v |-> x]
StrVal(x) == [kind |-> "str", v |-> x]
\* a duration field as stored: a number, or the str float() cannot parse
RawDuration(d) == IF d = Unparsable THEN StrVal(d) ELSE NumVal(d)


\* length of a calendar day, for datetime.date()
MinutesPerDay == 1440
\* the proximity threshold of the same-day rule: time_diff <= 1 (hour)
ProximityMinutes == 60
\* problematic_need_ids = [800197]
ProblematicNeedId == 800197
\* the default duration of a synthetic shift whose logs sum to 0
DefaultSyntheticDuration == 2

(***************************************************************************)
(* State.                                                                  *)
(***************************************************************************)
VARIABLES
  needs,              \* db["needs"], in natural (insertion) order
  responses,          \* db["responses"], in natural order
  hours,              \* db["hours"], in natural order
  collections,        \* db.list_collection_names(), source collections only
  shift_status,       \* db["shift_status"]: _id -> document
  sync_metadata,      \* number of _update_sync_metadata("shift_status") calls
  fresh_shift_data,   \* self.config["fresh_shift_data"]
  pc,                 \* position of _generate_shift_status
  future_only,        \* argument of the running _generate_shift_status
  now,                \* datetime.utcnow() read by the running call
  shift_status_list,  \* the in-memory batch of the running call
  stats,              \* counters of the Writer and of the synthesizer
  runs,               \* calls of _generate_shift_status started so far
  rerun,              \* history: sources unchanged since the last call ended
  prev_shift_status,  \* history: shift_status when the last call ended
  storage_failures,   \* positions of the batch whose storage call raises
  workers,            \* the concurrent calls of the Writer, if any
  api_request         \* the running _make_api_request call, if any

vars == <<needs, responses, hours, collections, shift_status, sync_metadata,
          fresh_shift_data, pc, future_only, now, shift_status_list, stats,
          runs, rerun, prev_shift_status, storage_failures, workers,
          api_request>>

sources == <<needs, responses, hours, collections>>
runvars == <<pc, future_only, now, shift_status_list, stats, storage_failures>>
history == <<rerun, prev_shift_status>>

(***************************************************************************)
(* Documents.                                                              *)
(***************************************************************************)
Shift(id, start, end, slots) ==
  [id |-> id, start |-> start, end |-> end, duration |-> 0, slots |-> slots]

Need(id, shifts, dstart, dend) ==
  [id |-> id, shifts |-> shifts, need_date_start |-> dstart,
   need_date_end |-> dend, need_hours |-> 0]

Response(need_id, shift_id, user_id, status) ==
  [need_id |-> need_id, shift_id |-> shift_id, user_id |-> user_id,
   response_status |-> status]

Hour(id, need_id, user_id, shift_id, start, end, status, duration, created, updated, source) ==
  [id |-> id, need_id |-> need_id, user_id |-> user_id,
   shift_id |-> shift_id, hour_date_start |-> start, hour_date_end |-> end,
   hour_status |-> status, hour_duration |-> duration,
   hour_date_created |-> created, hour_date_updated |-> updated,
   hour_source |-> source]

\* a user entry as the Signup Binder and the correlator first create it
UserEntry(user_id, checkin_status) ==
  [id |-> user_id, checkin_status |-> checkin_status,
   hour_id |-> 0, hour_status |-> "", hour_duration |-> NumVal(0),
   hour_source |-> "", checkout_status |-> "",
   has_checkin |-> FALSE, has_checkout |-> FALSE,
   has_manager_approval |-> FALSE, has_kiosk_activity |-> FALSE]

NoStats ==
  [processed_count |-> 0, updated_count |-> 0, inserted_count |-> 0,
   error_count |-> 0, synthetic_inserted |-> 0, synthetic_updated |-> 0,
   synthesizer_runs |-> 0]

EmptyCollection == [k \in {} |-> 0]

\* no _make_api_request call is running
NoRequest ==
  [pc |-> "idle", attempt |-> 0, replies |-> <<>>, logins |-> 0, result |-> ""]

(***************************************************************************)
(* Small helpers over sequences and sets.                                  *)
(***************************************************************************)
Range(seq) == {seq[i] : i \in DOMAIN seq}
SetMin(S) == CHOOSE x \in S : \A y \in S : x <= y
SetMax(S) == CHOOSE x \in S : \A y \in S : x >= y

RECURSIVE SumSeq(_, _)
SumSeq(seq, i) == IF i > Len(seq) THEN 0 ELSE seq[i] + SumSeq(seq, i + 1)


\* datetime.date() / strftime("%Y-%m-%d")
Day(t) == t \div MinutesPerDay

(***************************************************************************)
(* Shift Extractor: _create_shifts_from_needs and                          *)
(* _create_synthetic_shifts_for_need.                                      *)
(***************************************************************************)
\* float(h.get("hour_duration") or 0)
FloatOrZero(d) == IF d = Unparsable THEN 0 ELSE d

RECURSIVE DistinctDays(_, _, _)
\* keys of hours_by_day in insertion order
DistinctDays(hs, i, acc) ==
  IF i > Len(hs) THEN acc
  ELSE LET t == hs[i].hour_date_start
       IN IF t = 0 \/ Day(t) \in Range(acc)
          THEN DistinctDays(hs, i + 1, acc)
          ELSE DistinctDays(hs, i + 1, Append(acc, Day(t)))

RECURSIVE SyntheticShiftsFrom(_, _, _, _)
\* the loop over hours_by_day.items(); a duration float() cannot parse
\* raises, and the except clause returns the shifts built so far
SyntheticShiftsFrom(hs, days, i, acc) ==
  IF i > Len(days) THEN acc
  ELSE
    LET day_hours == SelectSeq(hs, LAMBDA h :
                       h.hour_date_start # 0 /\ Day(h.hour_date_start) = days[i])
        min_start == SetMin({day_hours[j].hour_date_start : j \in DOMAIN day_hours})
        ends      == {day_hours[j].hour_date_end : j \in DOMAIN day_hours} \ {0}
        max_end   == IF ends = {} THEN 0 ELSE SetMax(ends)
        raises    == \E j \in DOMAIN day_hours :
                       day_hours[j].hour_duration = Unparsable
        durations == [j \in DOMAIN day_hours |->
                        FloatOrZero(day_hours[j].hour_duration)]
        synthetic_shift ==
          [id       |-> day_hours[1].id,
           start    |-> min_start,
           end      |-> max_end,
           duration |-> SumSeq(durations, 1) \div Len(day_hours),
           slots    |-> Len(day_hours)]
    IN IF max_end = 0 THEN SyntheticShiftsFrom(hs, days, i + 1, acc)
       ELSE IF raises THEN acc
       ELSE SyntheticShiftsFrom(hs, days, i + 1, Append(acc, synthetic_shift))

CreateSyntheticShiftsForNeed(need_id) ==
  LET hs == SelectSeq(hours, LAMBDA h : h.need_id = need_id)
  IN SyntheticShiftsFrom(hs, DistinctDays(hs, 1, <<>>), 1, <<>>)

\* the find() of the extractor, with its fallback to the flat date fields
NeedsToProcess(f, t) ==
  LET with_shifts == SelectSeq(needs, LAMBDA n :
                       /\ n.shifts # <<>>
                       /\ f => \E j \in DOMAIN n.shifts :
                                 n.shifts[j].start # 0 /\ n.shifts[j].start >= t)
      alt == SelectSeq(needs, LAMBDA n :
               n.need_date_start # 0 /\ n.need_date_end # 0)
  IN IF Len(with_shifts) = 0 /\ Len(alt) > 0 THEN alt ELSE with_shifts

\* the shifts the inner loop runs over for one need
ShiftsOfNeed(need) ==
  IF need.id = ProblematicNeedId /\ need.shifts = <<>>
  THEN CreateSyntheticShiftsForNeed(need.id)
  ELSE need.shifts

\* the basic shift status entry
BasicShiftStatus(need, shift) ==
  [id           |-> IntKey(shift.id),
   start        |-> shift.start,
   end          |-> shift.end,
   duration     |-> NumVal(IF shift.duration # 0 THEN shift.duration
                           ELSE need.need_hours),
   slots        |-> shift.slots,
   need_id      |-> need.id,
   users        |-> <<>>,
   slots_filled |-> 0,
   sync_source  |-> "aggregation"]

RECURSIVE ShiftEntries(_, _, _)
ShiftEntries(need, shifts, j) ==
  IF j > Len(shifts) THEN <<>>
  ELSE (IF shifts[j].id = 0 THEN <<>>
        ELSE <<BasicShiftStatus(need, shifts[j])>>)
       \o ShiftEntries(need, shifts, j + 1)

RECURSIVE ExtractFrom(_, _)
ExtractFrom(ns, i) ==
  IF i > Len(ns) THEN <<>>
  ELSE (IF ns[i].id = 0 THEN <<>>
        ELSE ShiftEntries(ns[i], ShiftsOfNeed(ns[i]), 1))
       \o ExtractFrom(ns, i + 1)

CreateShiftsFromNeeds(f, t) == ExtractFrom(NeedsToProcess(f, t), 1)

(***************************************************************************)
(* Signup Binder: _assign_users_from_responses.                            *)
(***************************************************************************)
\* mutant: the response status is compared without lower()
InitialCheckinStatusCaseSensitive(response_status) ==
  IF response_status = "active" THEN "pending"
  ELSE IF response_status = "inactive" THEN "cancelled"
  ELSE "absent"

\* mutant: a signup that is neither active nor inactive counts as pending
InitialCheckinStatusDefaultPending(response_status) ==
  IF response_status # "" /\ Lower(response_status) = "inactive"
  THEN "cancelled"
  ELSE "pending"

\* the initial checkin status of a response
InitialCheckinStatus(response_status) ==
  IF response_status # "" /\ Lower(response_status) = "active" THEN "pending"
  ELSE IF response_status # "" /\ Lower(response_status) = "inactive"
       THEN "cancelled"
  ELSE "absent"

\* index of the first user entry with that id, 0 when there is none
UserIndex(users, user_id) ==
  IF \E k \in DOMAIN users : users[k].id = user_id
  THEN SetMin({k \in DOMAIN users : users[k].id = user_id})
  ELSE 0

\* mutant: a further signup of a volunteer always replaces the entry's status
AddResponseUserLastWins(users, response) ==
  LET user_id        == response.user_id
      checkin_status == InitialCheckinStatus(response.response_status)
      k              == UserIndex(users, user_id)
  IN IF user_id = 0 THEN users
     ELSE IF k # 0
          THEN [users EXCEPT ![k].checkin_status = checkin_status]
          ELSE Append(users, UserEntry(user_id, checkin_status))

\* one response applied to the users list of its shift
AddResponseUser(users, response) ==
  LET user_id        == response.user_id
      checkin_status == InitialCheckinStatus(response.response_status)
      k              == UserIndex(users, user_id)
  IN IF user_id = 0 THEN users
     ELSE IF k # 0
          THEN IF checkin_status # "absent" /\ users[k].checkin_status = "absent"
               THEN [users EXCEPT ![k].checkin_status = checkin_status]
               ELSE users
          ELSE Append(users, UserEntry(user_id, checkin_status))

RECURSIVE AddResponseUsers(_, _, _)
AddResponseUsers(users, rs, i) ==
  IF i > Len(rs) THEN users
  ELSE AddResponseUsers(AddResponseUser(users, rs[i]), rs, i + 1)

\* the responses of one shift, in the order find() returns them
ResponsesOfShift(rsp, shift) ==
  SelectSeq(rsp, LAMBDA r :
    r.need_id = shift.need_id /\ IntKey(r.shift_id) = shift.id)

\* _assign_users_from_responses over the batch, reading responses rsp
AssignUsersFromResponses(list, rsp) ==
  [i \in DOMAIN list |->
     IF list[i].need_id = 0 \/ ~Truthy(list[i].id) THEN list[i]
     ELSE [list[i] EXCEPT !.users =
             AddResponseUsers(@, ResponsesOfShift(rsp, list[i]), 1)]]

(***************************************************************************)
(* Time-Log Correlator: _correlate_hours_to_shifts.                        *)
(***************************************************************************)
\* the first branch of the status chain: denial / rejection
IsDenied(hour_status) ==
  /\ hour_status # ""
  /\ \/ Lower(hour_status) = "denied"
     \/ Contains("denied", Lower(hour_status))
     \/ Lower(hour_status) = "deny"
     \/ Contains("reject", Lower(hour_status))

\* the second branch of the status chain: approval
IsApproved(hour_status) ==
  /\ hour_status # ""
  /\ \/ Lower(hour_status) = "approved"
     \/ Lower(hour_status) = "a"
     \/ Lower(hour_status) = "approve"
     \/ Contains("approve", Lower(hour_status))

\* float(hour_duration) of the third branch raises ValueError
DurationRaises(hour) ==
  /\ ~IsDenied(hour.hour_status)
  /\ ~IsApproved(hour.hour_status)
  /\ hour.hour_duration = Unparsable

\* mutant: the duration rule is tried before the denial and approval rules
HourCheckinStatusDurationFirst(hour) ==
  IF hour.hour_duration # 0 /\ hour.hour_duration > 0 THEN "completed"
  ELSE IF IsDenied(hour.hour_status) THEN "cancelled"
  ELSE IF IsApproved(hour.hour_status) THEN "completed"
  ELSE IF /\ hour.hour_date_created # 0
          /\ hour.hour_date_updated # 0
          /\ hour.hour_date_created # hour.hour_date_updated
       THEN "completed"
  ELSE "active"

\* the checkin status the status chain derives from one hour
HourCheckinStatus(hour) ==
  IF IsDenied(hour.hour_status) THEN "cancelled"
  ELSE IF IsApproved(hour.hour_status) THEN "completed"
  ELSE IF hour.hour_duration # 0 /\ hour.hour_duration > 0 THEN "completed"
  ELSE IF /\ hour.hour_date_created # 0
          /\ hour.hour_date_updated # 0
          /\ hour.hour_date_created # hour.hour_date_updated
       THEN "completed"
  ELSE "active"

ManagerPatterns ==
  {"/manager/hours/", "/admin/", "manager", "admin", "approved", "approve"}

\* mutant: the check-in token is searched without lower()
HasCheckinCaseSensitive(hour_source) ==
  /\ hour_source # ""
  /\ \/ Contains("checkin", hour_source)
     \/ Contains("storecheckin", hour_source)

HasCheckin(hour_source) ==
  /\ hour_source # ""
  /\ \/ Contains("checkin", Lower(hour_source))
     \/ Contains("storecheckin", Lower(hour_source))

HasCheckout(hour_source) ==
  /\ hour_source # ""
  /\ \/ Contains("checkout", Lower(hour_source))
     \/ Contains("storecheckout", Lower(hour_source))

HasManagerApproval(hour_source) ==
  /\ hour_source # ""
  /\ \E pattern \in ManagerPatterns :
       Contains(Lower(pattern), Lower(hour_source))

HasKioskActivity(hour_source) ==
  /\ hour_source # ""
  /\ Contains("/kiosk/", Lower(hour_source))

\* the checkout status of pending hours
CheckoutStatus(hour) ==
  IF hour.hour_status # "" /\ Lower(hour.hour_status) = "pending"
  THEN IF HasCheckin(hour.hour_source) /\ HasCheckout(hour.hour_source)
       THEN "checked_in_and_out"
       ELSE IF HasCheckin(hour.hour_source) /\ ~HasCheckout(hour.hour_source)
       THEN "checked_in_only"
       ELSE IF HasManagerApproval(hour.hour_source)
       THEN "manager_approved"
       ELSE "no_checkin_activity"
  ELSE "unknown"

\* user_entry.update({...}) with the information of one hour
UpdateUserEntry(user_entry, hour) ==
  [user_entry EXCEPT
     !.checkin_status       = HourCheckinStatus(hour),
     !.hour_id              = hour.id,
     !.hour_status          = hour.hour_status,
     !.hour_duration        = RawDuration(hour.hour_duration),
     !.hour_source          = hour.hour_source,
     !.checkout_status      = CheckoutStatus(hour),
     !.has_checkin          = HasCheckin(hour.hour_source),
     !.has_checkout         = HasCheckout(hour.hour_source),
     !.has_manager_approval = HasManagerApproval(hour.hour_source),
     !.has_kiosk_activity   = HasKioskActivity(hour.hour_source)]

AbsDiff(a, b) == IF a >= b THEN a - b ELSE b - a

\* the time-based tests of one hour against one shift
ExactMatch(hour, shift) ==
  hour.hour_date_start = shift.start /\ hour.hour_date_end = shift.end

WithinShift(hour, shift) ==
  hour.hour_date_start >= shift.start /\ hour.hour_date_end <= shift.end

OverlapsShift(hour, shift) ==
  \/ hour.hour_date_start >= shift.start /\ hour.hour_date_start < shift.end
  \/ hour.hour_date_end > shift.start /\ hour.hour_date_end <= shift.end
  \/ hour.hour_date_start <= shift.start /\ hour.hour_date_end >= shift.end

\* a proximity test that compares the starts and not the calendar dates
SameDateMatchIgnoresDate(hour, shift) ==
  AbsDiff(hour.hour_date_start, shift.start) <= ProximityMinutes

SameDateMatch(hour, shift) ==
  /\ Day(shift.start) = Day(hour.hour_date_start)
  /\ AbsDiff(hour.hour_date_start, shift.start) <= ProximityMinutes

TimeMatch(hour, shift) ==
  /\ shift.start # 0
  /\ shift.end # 0
  /\ \/ ExactMatch(hour, shift)
     \/ WithinShift(hour, shift)
     \/ OverlapsShift(hour, shift)
     \/ SameDateMatch(hour, shift)

Indices(list) == [i \in 1..Len(list) |-> i]

\* direct_matches, as indices into the batch
DirectMatches(list, need_id, hour) ==
  IF hour.shift_id = 0 THEN <<>>
  ELSE SelectSeq(Indices(list), LAMBDA i :
         list[i].need_id = need_id /\ list[i].id = IntKey(hour.shift_id))

\* mutant: the time-based matches are added to the direct matches
MatchingShiftsUnion(list, need_id, hour) ==
  LET direct == DirectMatches(list, need_id, hour)
  IN IF hour.hour_date_start # 0 /\ hour.hour_date_end # 0
     THEN SelectSeq(Indices(list), LAMBDA i :
            /\ list[i].need_id = need_id
            /\ \/ i \in Range(direct)
               \/ TimeMatch(hour, list[i]))
     ELSE direct

\* matching_shifts of one hour, as indices into the batch
MatchingShifts(list, need_id, hour) ==
  LET direct == DirectMatches(list, need_id, hour)
  IN IF direct # <<>> THEN direct
     ELSE IF hour.hour_date_start # 0 /\ hour.hour_date_end # 0
          THEN SelectSeq(Indices(list), LAMBDA i :
                 list[i].need_id = need_id /\ TimeMatch(hour, list[i]))
          ELSE <<>>

\* a lookup that never finds the existing entry
EnsureUserAlwaysAppends(users, user_id) ==
  Append(users, UserEntry(user_id, "absent"))

\* the users list with an entry for user_id, appended as absent if missing
EnsureUser(users, user_id) ==
  IF UserIndex(users, user_id) # 0 THEN users
  ELSE Append(users, UserEntry(user_id, "absent"))

\* the body of `for shift in matching_shifts` for one shift
ApplyHourToUsers(users, hour) ==
  LET us == EnsureUser(users, hour.user_id)
      k  == UserIndex(us, hour.user_id)
  IN [us EXCEPT ![k] = UpdateUserEntry(@, hour)]

RECURSIVE ApplyHour(_, _, _, _)
ApplyHour(list, matching, m, hour) ==
  IF m > Len(matching) THEN list
  ELSE ApplyHour([list EXCEPT ![matching[m]].users = ApplyHourToUsers(@, hour)],
                 matching, m + 1, hour)

RECURSIVE CorrelateNeed(_, _, _, _)
\* `for hour in hours` of one need; an exception leaves the loop and drops
\* the rest of the need's hours
CorrelateNeed(list, need_id, hs, j) ==
  IF j > Len(hs) THEN list
  ELSE
    LET hour     == hs[j]
        matching == MatchingShifts(list, need_id, hour)
    IN IF hour.user_id = 0 \/ matching = <<>>
       THEN CorrelateNeed(list, need_id, hs, j + 1)
       ELSE IF DurationRaises(hour)
       THEN [list EXCEPT ![matching[1]].users = EnsureUser(@, hour.user_id)]
       ELSE CorrelateNeed(ApplyHour(list, matching, 1, hour),
                          need_id, hs, j + 1)

RECURSIVE NeedIdsOf(_, _, _)
\* keys of shifts_by_need in insertion order
NeedIdsOf(list, i, acc) ==
  IF i > Len(list) THEN acc
  ELSE IF list[i].need_id = 0 \/ list[i].need_id \in Range(acc)
       THEN NeedIdsOf(list, i + 1, acc)
       ELSE NeedIdsOf(list, i + 1, Append(acc, list[i].need_id))

RECURSIVE CorrelateNeeds(_, _, _, _)
CorrelateNeeds(list, hrs, need_ids, n) ==
  IF n > Len(need_ids) THEN list
  ELSE CorrelateNeeds(
         CorrelateNeed(list, need_ids[n],
                       SelectSeq(hrs, LAMBDA h : h.need_id = need_ids[n]), 1),
         hrs, need_ids, n + 1)

\* count of non-cancelled slots
NonCancelled(users) ==
  Cardinality({k \in DOMAIN users : users[k].checkin_status # "cancelled"})

\* mutant: the closing loop backfills slots but leaves slots_filled stale
RecomputeSlotsStale(shift) ==
  [shift EXCEPT !.slots = IF shift.slots = 0 THEN Len(shift.users) ELSE @]

\* the closing loop of the correlator over one shift
RecomputeSlots(shift) ==
  [shift EXCEPT !.slots_filled = NonCancelled(shift.users),
                !.slots = IF shift.slots = 0 THEN Len(shift.users) ELSE @]

\* _correlate_hours_to_shifts over the batch, reading hours hrs
CorrelateHoursToShifts(list, hrs) ==
  LET correlated == CorrelateNeeds(list, hrs, NeedIdsOf(list, 1, <<>>), 1)
  IN [i \in DOMAIN correlated |-> RecomputeSlots(correlated[i])]

(***************************************************************************)
(* Shift Status Writer: _save_shift_status_data.                           *)
(***************************************************************************)
\* an update that pushes the new user entries after the stored ones
PutKeepingUsers(db, k, doc) ==
  [x \in DOMAIN db \cup {k} |->
     IF x # k THEN db[x]
     ELSE IF k \in DOMAIN db
          THEN [doc EXCEPT !.users = db[k].users \o doc.users]
          ELSE doc]

\* db with the document of key k replaced or added
Put(db, k, doc) ==
  [x \in DOMAIN db \cup {k} |-> IF x = k THEN doc ELSE db[x]]

RECURSIVE SaveLoopAborting(_, _, _, _, _)
\* a loop whose try/except encloses the whole loop: the first error ends it
SaveLoopAborting(db, st, list, i, fails) ==
  IF i > Len(list) THEN [db |-> db, st |-> st]
  ELSE
    LET shift == list[i]
    IN IF ~Truthy(shift.id) \/ i \in fails
       THEN [db |-> db, st |-> [st EXCEPT !.error_count = @ + 1]]
       ELSE IF shift.id \in DOMAIN db
       THEN SaveLoopAborting(Put(db, shift.id, shift),
                     [st EXCEPT !.updated_count = @ + 1,
                                !.processed_count = @ + 1],
                     list, i + 1, fails)
       ELSE SaveLoopAborting(Put(db, shift.id, shift),
                     [st EXCEPT !.inserted_count = @ + 1,
                                !.processed_count = @ + 1],
                     list, i + 1, fails)

RECURSIVE SaveLoop(_, _, _, _, _)
\* `for shift in shift_status_list`: find_one, then update_one or insert_one.
\* A record without id and a record whose storage call raises (its position
\* is in fails) are counted as errors and the loop continues.  The result
\* carries the collection and the counters.
SaveLoop(db, st, list, i, fails) ==
  IF i > Len(list) THEN [db |-> db, st |-> st]
  ELSE
    LET shift == list[i]
    IN IF ~Truthy(shift.id) \/ i \in fails
       THEN SaveLoop(db, [st EXCEPT !.error_count = @ + 1], list, i + 1, fails)
       ELSE IF shift.id \in DOMAIN db
       THEN SaveLoop(Put(db, shift.id, shift),
                     [st EXCEPT !.updated_count = @ + 1,
                                !.processed_count = @ + 1],
                     list, i + 1, fails)
       ELSE SaveLoop(Put(db, shift.id, shift),
                     [st EXCEPT !.inserted_count = @ + 1,
                                !.processed_count = @ + 1],
                     list, i + 1, fails)

(***************************************************************************)
(* Orphan Time-Log Synthesizer:                                            *)
(* _process_synthetic_shifts_for_approved_hours.                           *)
(***************************************************************************)
\* the $match stage of hour_pipeline
ApprovedHours(hrs) ==
  SelectSeq(hrs, LAMBDA h :
    h.hour_status = "approved" /\ h.need_id # 0 /\ h.user_id # 0)

RECURSIVE GroupKeys(_, _, _)
\* the _id values of the $group stage
GroupKeys(hs, i, acc) ==
  IF i > Len(hs) THEN acc
  ELSE LET key == <<hs[i].need_id, hs[i].user_id>>
       IN IF key \in Range(acc) THEN GroupKeys(hs, i + 1, acc)
          ELSE GroupKeys(hs, i + 1, Append(acc, key))

\* count_documents({"need_id", "users.id", "users.checkin_status"}) > 0
AlreadyCompleted(db, need_id, user_id) ==
  \E k \in DOMAIN db :
    /\ db[k].need_id = need_id
    /\ \E u \in DOMAIN db[k].users : db[k].users[u].id = user_id
    /\ \E u \in DOMAIN db[k].users :
         db[k].users[u].checkin_status = "completed"

\* total_duration of a group: unparsable durations are skipped
TotalDuration(hours_list) ==
  LET total == SumSeq([j \in DOMAIN hours_list |->
                         FloatOrZero(hours_list[j].hour_duration)], 1)
  IN IF total = 0 THEN DefaultSyntheticDuration ELSE total

\* f"syn_{need_id}_{user_id}_{hour_id}"
SyntheticShiftId(need_id, user_id, hour_id) ==
  StrKey("syn_" \o IntToStr(need_id) \o "_" \o IntToStr(user_id)
         \o "_" \o IntToStr(hour_id))

\* mutant: the synthetic entry is created with every provenance flag set
SyntheticShiftAllFlags(need_id, user_id, hours_list) ==
  LET hour_id    == hours_list[1].id
      starts     == {hours_list[j].hour_date_start : j \in DOMAIN hours_list} \ {0}
      ends       == {hours_list[j].hour_date_end : j \in DOMAIN hours_list} \ {0}
      user_entry ==
        [id |-> user_id, checkin_status |-> "completed",
         hour_id |-> hour_id, hour_status |-> "approved",
         hour_duration |-> StrVal(TotalDuration(hours_list)),
         hour_source |-> "", checkout_status |-> "manager_approved",
         has_checkin |-> TRUE, has_checkout |-> TRUE,
         has_manager_approval |-> TRUE, has_kiosk_activity |-> TRUE]
  IN [id           |-> SyntheticShiftId(need_id, user_id, hour_id),
      start        |-> SetMin(starts),
      end          |-> SetMax(ends),
      duration     |-> StrVal(TotalDuration(hours_list)),
      slots        |-> 1,
      need_id      |-> need_id,
      users        |-> <<user_entry>>,
      slots_filled |-> 1,
      sync_source  |-> "synthetic"]

\* the synthetic shift of one (need, user) group
SyntheticShift(need_id, user_id, hours_list) ==
  LET hour_id    == hours_list[1].id
      starts     == {hours_list[j].hour_date_start : j \in DOMAIN hours_list} \ {0}
      ends       == {hours_list[j].hour_date_end : j \in DOMAIN hours_list} \ {0}
      user_entry ==
        [id |-> user_id, checkin_status |-> "completed",
         hour_id |-> hour_id, hour_status |-> "approved",
         hour_duration |-> StrVal(TotalDuration(hours_list)),
         hour_source |-> "", checkout_status |-> "manager_approved",
         has_checkin |-> TRUE, has_checkout |-> TRUE,
         has_manager_approval |-> TRUE, has_kiosk_activity |-> FALSE]
  IN [id           |-> SyntheticShiftId(need_id, user_id, hour_id),
      start        |-> SetMin(starts),
      end          |-> SetMax(ends),
      duration     |-> StrVal(TotalDuration(hours_list)),
      slots        |-> 1,
      need_id      |-> need_id,
      users        |-> <<user_entry>>,
      slots_filled |-> 1,
      sync_source  |-> "synthetic"]

\* a group is skipped: already completed, or hour_id / start / end missing
SkipsGroup(db, need_id, user_id, hours_list) ==
  \/ AlreadyCompleted(db, need_id, user_id)
  \/ hours_list[1].id = 0
  \/ \A j \in DOMAIN hours_list : hours_list[j].hour_date_start = 0
  \/ \A j \in DOMAIN hours_list : hours_list[j].hour_date_end = 0

RECURSIVE SyntheticShifts(_, _, _, _)
\* `for combo in need_user_hours`: the list synthetic_shifts
SyntheticShifts(db, hs, keys, g) ==
  IF g > Len(keys) THEN <<>>
  ELSE
    LET need_id    == keys[g][1]
        user_id    == keys[g][2]
        hours_list == SelectSeq(hs, LAMBDA h :
                        h.need_id = need_id /\ h.user_id = user_id)
    IN (IF SkipsGroup(db, need_id, user_id, hours_list) THEN <<>>
        ELSE <<SyntheticShift(need_id, user_id, hours_list)>>)
       \o SyntheticShifts(db, hs, keys, g + 1)

RECURSIVE UpsertSynthetic(_, _, _, _)
\* `for shift in synthetic_shifts`: find_one, then update_one or insert_one
UpsertSynthetic(db, st, syn, i) ==
  IF i > Len(syn) THEN [db |-> db, st |-> st]
  ELSE IF syn[i].id \in DOMAIN db
       THEN UpsertSynthetic(Put(db, syn[i].id, syn[i]),
                            [st EXCEPT !.synthetic_updated = @ + 1], syn, i + 1)
       ELSE UpsertSynthetic(Put(db, syn[i].id, syn[i]),
                            [st EXCEPT !.synthetic_inserted = @ + 1], syn, i + 1)

\* _process_synthetic_shifts_for_approved_hours on collection db
ProcessSyntheticShifts(db, st, hrs) ==
  LET hs  == ApprovedHours(hrs)
      syn == SyntheticShifts(db, hs, GroupKeys(hs, 1, <<>>), 1)
  IN UpsertSynthetic(db, [st EXCEPT !.synthesizer_runs = @ + 1], syn, 1)

\* mutant: the collection is cleared whatever fresh_shift_data says
SaveShiftStatusDataAlwaysClears(db, list, hrs, fresh, fails) ==
  IF list = <<>> THEN [db |-> db, st |-> NoStats]
  ELSE LET saved == SaveLoop(EmptyCollection, NoStats, list, 1, fails)
       IN ProcessSyntheticShifts(saved.db, saved.st, hrs)

\* _save_shift_status_data: the early return, the fresh-mode clearing, the
\* Writer loop and the trailing call of the synthesizer
SaveShiftStatusData(db, list, hrs, fresh, fails) ==
  IF list = <<>> THEN [db |-> db, st |-> NoStats]
  ELSE LET cleared == IF fresh THEN EmptyCollection ELSE db
           saved   == SaveLoop(cleared, NoStats, list, 1, fails)
       IN ProcessSyntheticShifts(saved.db, saved.st, hrs)

(***************************************************************************)
(* Source data the upstream sync delivers.                                 *)
(***************************************************************************)
\* need 10 with two shifts of one day, 09:00-11:00 and 13:00-15:00
NeedWithShifts ==
  Need(10, <<Shift(101, 540, 660, 0), Shift(102, 780, 900, 2)>>, 0, 0)

\* need 10 without structured shifts and without flat date fields
NeedWithoutShifts == Need(10, <<>>, 0, 0)

NeedConfigs == {<<NeedWithShifts>>, <<NeedWithoutShifts>>}

ResponsePool ==
  {Response(10, 101, 1, "active"),
   Response(10, 101, 1, "inactive"),
   Response(10, 101, 1, "waitlist"),
   Response(10, 102, 2, "Active")}

HourPool ==
  {\* volunteer 1, approved, inside shift 101
   Hour(1001, 10, 1, 0, 545, 660, "approved", 2, 1, 1, ""),
   \* volunteer 1, approved, matching no shift
   Hour(1002, 10, 1, 0, 1000, 1100, "approved", 2, 1, 1, ""),
   \* volunteer 2, Approved (capitalised), matching no shift
   Hour(1003, 10, 2, 0, 1000, 1100, "Approved", 2, 1, 1, ""),
   \* volunteer 1, denied with a duration, inside shift 101, created later
   Hour(1004, 10, 1, 0, 545, 660, "denied", 2, 2, 2, ""),
   \* volunteer 2, approved, overlapping shifts 101 and 102
   Hour(1005, 10, 2, 0, 600, 800, "approved", 2, 1, 1, ""),
   \* volunteer 1, pending, referring to shift 101, window of shift 102
   Hour(1006, 10, 1, 101, 780, 900, "pending", 0, 1, 1, "/kiosk/checkin"),
   \* volunteer 2, pending with an unparsable duration, inside shift 101
   Hour(1007, 10, 2, 0, 545, 660, "pending", Unparsable, 1, 1, "")}

RequiredCollections == {"needs", "responses", "hours"}

(***************************************************************************)
(* Initial state: the needs are synced, no run has happened.               *)
(***************************************************************************)
Init ==
  /\ needs \in NeedConfigs
  /\ responses = <<>>
  /\ hours = <<>>
  /\ collections \in {{"needs"}, RequiredCollections}
  /\ shift_status = EmptyCollection
  /\ sync_metadata = 0
  /\ fresh_shift_data \in BOOLEAN
  /\ pc = "idle"
  /\ future_only = FALSE
  /\ now = 1
  /\ shift_status_list = <<>>
  /\ stats = NoStats
  /\ runs = 0
  /\ rerun = FALSE
  /\ prev_shift_status = EmptyCollection
  /\ storage_failures = {}
  /\ workers = <<>>
  /\ api_request = NoRequest

(***************************************************************************)
(* The upstream sync stores one more response or hour.                     *)
(***************************************************************************)
SyncResponse(r) ==
  /\ pc = "idle"
  /\ runs < MaxRuns
  /\ Len(responses) < MaxResponses
  /\ r \notin Range(responses)
  /\ responses' = Append(responses, r)
  /\ collections' = collections \cup {"responses"}
  /\ rerun' = FALSE
  /\ UNCHANGED <<needs, hours, shift_status, sync_metadata, fresh_shift_data,
                 runvars, runs, prev_shift_status, workers,
                 api_request>>

SyncHour(h) ==
  /\ pc = "idle"
  /\ runs < MaxRuns
  /\ Len(hours) < MaxHours
  /\ h \notin Range(hours)
  /\ hours' = Append(hours, h)
  /\ collections' = collections \cup {"hours"}
  /\ rerun' = FALSE
  /\ UNCHANGED <<needs, responses, shift_status, sync_metadata,
                 fresh_shift_data, runvars, runs, prev_shift_status, workers,
                 api_request>>

(***************************************************************************)
(* _generate_shift_status(future_only), one action per step.               *)
(***************************************************************************)
\* a skipped call that still records the generation in the sync metadata
SkipGenerationTouchesMetadata(f) ==
  /\ pc = "idle"
  /\ runs < MaxRuns
  /\ ~(RequiredCollections \subseteq collections)
  /\ runs' = runs + 1
  /\ rerun' = TRUE
  /\ prev_shift_status' = shift_status
  /\ sync_metadata' = sync_metadata + 1
  /\ UNCHANGED <<sources, shift_status, fresh_shift_data, runvars, workers,
                 api_request>>

\* the call finds a required collection missing and returns
SkipGeneration(f) ==
  /\ pc = "idle"
  /\ runs < MaxRuns
  /\ ~(RequiredCollections \subseteq collections)
  /\ runs' = runs + 1
  /\ rerun' = TRUE
  /\ prev_shift_status' = shift_status
  /\ UNCHANGED <<sources, shift_status, sync_metadata, fresh_shift_data,
                 runvars, workers,
                 api_request>>

\* the call starts: the collections exist, utcnow() is read
StartGeneration(f) ==
  /\ pc = "idle"
  /\ runs < MaxRuns
  /\ RequiredCollections \subseteq collections
  /\ runs' = runs + 1
  /\ future_only' = f
  /\ pc' = "extract"
  /\ UNCHANGED <<sources, shift_status, sync_metadata, fresh_shift_data,
                 now, shift_status_list, stats, history, storage_failures,
                 workers,
                 api_request>>

\* shift_status_list = self._create_shifts_from_needs(future_only, now)
Extract ==
  /\ pc = "extract"
  /\ shift_status_list' = CreateShiftsFromNeeds(future_only, now)
  /\ pc' = "assign"
  /\ UNCHANGED <<sources, shift_status, sync_metadata, fresh_shift_data,
                 future_only, now, stats, runs, history, storage_failures,
                 workers,
                 api_request>>

\* self._assign_users_from_responses(shift_status_list)
Assign ==
  /\ pc = "assign"
  /\ shift_status_list' = AssignUsersFromResponses(shift_status_list, responses)
  /\ pc' = "correlate"
  /\ UNCHANGED <<sources, shift_status, sync_metadata, fresh_shift_data,
                 future_only, now, stats, runs, history, storage_failures,
                 workers,
                 api_request>>

\* self._correlate_hours_to_shifts(shift_status_list)
Correlate ==
  /\ pc = "correlate"
  /\ shift_status_list' = CorrelateHoursToShifts(shift_status_list, hours)
  /\ pc' = "save"
  /\ UNCHANGED <<sources, shift_status, sync_metadata, fresh_shift_data,
                 future_only, now, stats, runs, history, storage_failures,
                 workers,
                 api_request>>

\* self._save_shift_status_data(shift_status_list), the storage calls of the
\* records at the positions fails raising
Save(fails) ==
  /\ pc = "save"
  /\ fails \subseteq DOMAIN shift_status_list
  /\ LET result == SaveShiftStatusData(shift_status, shift_status_list, hours,
                                       fresh_shift_data, fails)
     IN /\ shift_status' = result.db
        /\ stats' = result.st
  /\ storage_failures' = fails
  /\ pc' = "index"
  /\ UNCHANGED <<sources, sync_metadata, fresh_shift_data, future_only, now,
                 shift_status_list, runs, history, workers,
                 api_request>>

\* the create_index calls and _update_sync_metadata("shift_status"); the call
\* returns and its locals are gone
Finish ==
  /\ pc = "index"
  /\ sync_metadata' = sync_metadata + 1
  /\ pc' = "idle"
  /\ future_only' = FALSE
  /\ shift_status_list' = <<>>
  /\ stats' = NoStats
  /\ rerun' = TRUE
  /\ prev_shift_status' = shift_status
  /\ storage_failures' = {}
  /\ UNCHANGED <<sources, shift_status, fresh_shift_data, now, runs, workers,
                 api_request>>

Next ==
  \/ \E r \in ResponsePool : SyncResponse(r)
  \/ \E h \in HourPool : SyncHour(h)
  \/ SkipGeneration(FALSE)
  \/ StartGeneration(FALSE)
  \/ Extract
  \/ Assign
  \/ Correlate
  \/ Save({})
  \/ Finish

Spec == Init /\ [][Next]_vars

(***************************************************************************)
(* Properties.                                                             *)
(***************************************************************************)
\* the user entries of a document, as a set
UsersOf(doc) == Range(doc.users)

\* C1: every persisted ShiftStatus record, regular or synthetic, has
\* slots_filled equal to the number of its user entries whose checkin_status
\* is not 'cancelled', after any number of runs in default or fresh mode.
C1_SlotsFilledInvariant ==
  \A k \in DOMAIN shift_status :
    shift_status[k].slots_filled =
      Cardinality({u \in DOMAIN shift_status[k].users :
                     shift_status[k].users[u].checkin_status # "cancelled"})

\* a persisted regular record holds a cancelled and a non-cancelled user,
\* next to a persisted synthetic record
C1_Witness ==
  /\ \E k \in DOMAIN shift_status :
       /\ shift_status[k].sync_source = "aggregation"
       /\ Len(shift_status[k].users) = 2
       /\ shift_status[k].slots_filled = 1
  /\ \E k \in DOMAIN shift_status : shift_status[k].sync_source = "synthetic"

\* the (shift key, volunteer, checkin_status) triples of a collection
StatusTriples(db) ==
  UNION {{<<k, db[k].users[u].id, db[k].users[u].checkin_status>> :
            u \in DOMAIN db[k].users} : k \in DOMAIN db}

\* how many user entries of a collection carry the triple t
TripleCount(db, t) ==
  Cardinality({<<k, u>> \in UNION {{<<k2, u2>> : u2 \in DOMAIN db[k2].users} :
                                     k2 \in DOMAIN db} :
                 <<k, db[k].users[u].id, db[k].users[u].checkin_status>> = t})

\* two collections hold the same multiset of triples
SameStatusBag(db1, db2) ==
  \A t \in StatusTriples(db1) \cup StatusTriples(db2) :
    TripleCount(db1, t) = TripleCount(db2, t)

CompletedRecords(db, need_id, user_id) ==
  {k \in DOMAIN db :
     /\ db[k].need_id = need_id
     /\ \E u \in DOMAIN db[k].users :
          /\ db[k].users[u].id = user_id
          /\ db[k].users[u].checkin_status = "completed"}

\* C3: after a completed run, every TimeLog with approved status has exactly
\* one ShiftStatus record of its Need holding a completed entry of its
\* volunteer, a correlated regular shift or a synthetic one, never both and
\* never neither.
C3_ExactlyOneCompleted ==
  pc = "index" =>
    \A j \in DOMAIN hours :
      hours[j].hour_status = "approved" =>
        Cardinality(CompletedRecords(shift_status, hours[j].need_id,
                                     hours[j].user_id)) = 1

\* the hour is bound to no shift of the batch, by reference or by window
MatchesNoShift(list, hour) ==
  \A i \in DOMAIN list :
    list[i].need_id = hour.need_id =>
      /\ list[i].id # IntKey(hour.shift_id)
      /\ ~TimeMatch(hour, list[i])

\* the status text is one the correlator's approval rule accepts
TreatedAsApproval(hour_status) ==
  /\ hour_status # ""
  /\ \E i \in 1..(Len(hour_status) - 6) :
       Lower(SubSeq(hour_status, i, i + 6)) = "approve"

\* C4: for every (Need, volunteer) pair with an approved TimeLog (any casing
\* or synonym the correlator treats as approval) that matches no shift of the
\* Need, and with no regular persisted shift of the Need holding a completed
\* entry of the volunteer, a completed run leaves a synthetic ShiftStatus with
\* identifier syn_<need>_<volunteer>_<log> whose single user entry is that
\* volunteer, completed; also when the extractor produced no shifts.
C4_OrphanSynthesized ==
  pc = "index" =>
    \A j \in DOMAIN hours :
      ( /\ TreatedAsApproval(hours[j].hour_status)
        /\ hours[j].need_id # 0
        /\ hours[j].user_id # 0
        /\ MatchesNoShift(shift_status_list, hours[j])
        /\ \A k \in CompletedRecords(shift_status, hours[j].need_id,
                                     hours[j].user_id) :
             shift_status[k].sync_source # "aggregation" )
      =>
      \E g \in DOMAIN hours :
        /\ hours[g].need_id = hours[j].need_id
        /\ hours[g].user_id = hours[j].user_id
        /\ LET key == StrKey("syn_" \o IntToStr(hours[j].need_id) \o "_"
                             \o IntToStr(hours[j].user_id) \o "_"
                             \o IntToStr(hours[g].id))
           IN /\ key \in DOMAIN shift_status
              /\ Len(shift_status[key].users) = 1
              /\ shift_status[key].users[1].id = hours[j].user_id
              /\ shift_status[key].users[1].checkin_status = "completed"

(***************************************************************************)
(* One signup and one time log on shift 101, over the status texts, the    *)
(* durations, the timestamps and the provenance texts of the log.          *)
(***************************************************************************)
ResponseStatuses == {"active", "Active", "inactive", "INACTIVE", "waitlist", ""}

HourStatuses ==
  {"approved", "Approved", "A", "denied", "Denied", "DENY", "Rejected",
   "approved/denied", "pending", "Pending", ""}

HourDurations == {0, 2, Unparsable}

\* (hour_date_created, hour_date_updated)
HourTimestamps == {<<0, 0>>, <<1, 1>>, <<1, 2>>}

HourSources ==
  {"",
   "Added at: /kiosk/storeCheckin/ by user 7533085",
   "Added at: /kiosk/storeCheckin/ by user 7533085 Updated at: /kiosk/storeCheckout/ by user 7533085",
   "Updated at: /kiosk/storeCheckout/ by user 7533085",
   "Added at: /manager/hours/ by user 12",
   "Added at: /Admin/hours by user 12",
   "Added at: /api/hours by user 7533085"}

InitApply ==
  /\ needs = <<NeedWithShifts>>
  /\ responses \in {<<>>} \cup
       {<<Response(10, 101, 1, s)>> : s \in ResponseStatuses}
  /\ hours \in
       {<<Hour(2001, 10, v, 0, 545, 660, st, d, ts[1], ts[2], src)>> :
          v \in {1, 2}, st \in HourStatuses, d \in HourDurations,
          ts \in HourTimestamps, src \in HourSources}
  /\ collections = RequiredCollections
  /\ shift_status = EmptyCollection
  /\ sync_metadata = 0
  /\ fresh_shift_data = FALSE
  /\ pc = "idle"
  /\ future_only = FALSE
  /\ now = 1
  /\ shift_status_list = <<>>
  /\ stats = NoStats
  /\ runs = MaxRuns - 1
  /\ rerun = FALSE
  /\ prev_shift_status = EmptyCollection
  /\ storage_failures = {}
  /\ workers = <<>>
  /\ api_request = NoRequest

NextApply ==
  \/ StartGeneration(FALSE)
  \/ Extract
  \/ Assign
  \/ Correlate
  \/ Save({})
  \/ Finish

SpecApply == InitApply /\ [][NextApply]_vars

\* the persisted entry of a volunteer in the record of shift 101
EntryOf(db, user_id) ==
  LET users == db[IntKey(101)].users
  IN users[CHOOSE u \in DOMAIN users : users[u].id = user_id]

HasEntry(db, user_id) ==
  /\ IntKey(101) \in DOMAIN db
  /\ \E u \in DOMAIN db[IntKey(101)].users :
       db[IntKey(101)].users[u].id = user_id

\* status texts that indicate denial or rejection
DenialTexts == {"denied", "Denied", "DENY", "Rejected", "approved/denied"}
\* status texts that indicate approval and no denial
ApprovalTexts == {"approved", "Approved", "A"}

\* C5: a log whose status text indicates denial or rejection yields
\* 'cancelled' whatever its duration, its timestamps and the linked signup
\* status; otherwise a log whose status text indicates approval yields
\* 'completed' whatever the linked signup status.
C5_DerivationPrecedence ==
  pc = "index" =>
    /\ HasEntry(shift_status, hours[1].user_id)
    /\ hours[1].hour_status \in DenialTexts =>
         EntryOf(shift_status, hours[1].user_id).checkin_status = "cancelled"
    /\ hours[1].hour_status \in ApprovalTexts =>
         EntryOf(shift_status, hours[1].user_id).checkin_status = "completed"

\* a denied log with a positive duration and a later update, applied to a
\* volunteer whose signup is active, has been stored as cancelled
C5_Witness ==
  /\ pc = "index"
  /\ responses # <<>>
  /\ responses[1].response_status = "active"
  /\ hours[1].user_id = 1
  /\ hours[1].hour_status = "denied"
  /\ hours[1].hour_duration > 0
  /\ hours[1].hour_date_created # hours[1].hour_date_updated
  /\ EntryOf(shift_status, 1).checkin_status = "cancelled"
  /\ EntryOf(shift_status, 1).hour_id = hours[1].id

CheckinSources ==
  {"Added at: /kiosk/storeCheckin/ by user 7533085",
   "Added at: /kiosk/storeCheckin/ by user 7533085 Updated at: /kiosk/storeCheckout/ by user 7533085"}
CheckoutSources ==
  {"Added at: /kiosk/storeCheckin/ by user 7533085 Updated at: /kiosk/storeCheckout/ by user 7533085",
   "Updated at: /kiosk/storeCheckout/ by user 7533085"}
ManagerSources ==
  {"Added at: /manager/hours/ by user 12", "Added at: /Admin/hours by user 12"}
KioskSources == CheckinSources \cup CheckoutSources

\* C10: the entry a log was applied to has has_checkin iff the lower-cased
\* source contains 'checkin', has_checkout iff it contains 'checkout',
\* has_manager_approval iff it contains a manager/admin/approval token,
\* has_kiosk_activity iff it contains '/kiosk/'; when the log's status is
\* 'pending', checkout_status is 'checked_in_and_out', else 'checked_in_only',
\* else 'manager_approved', else 'no_checkin_activity', in that order.
C10_Provenance ==
  pc = "index" =>
    LET h == hours[1]
        e == EntryOf(shift_status, h.user_id)
    IN (HasEntry(shift_status, h.user_id) /\ e.hour_id = h.id) =>
         /\ e.has_checkin = (h.hour_source \in CheckinSources)
         /\ e.has_checkout = (h.hour_source \in CheckoutSources)
         /\ e.has_manager_approval = (h.hour_source \in ManagerSources)
         /\ e.has_kiosk_activity = (h.hour_source \in KioskSources)
         /\ h.hour_status = "pending" =>
              e.checkout_status =
                IF h.hour_source \in CheckinSources \cap CheckoutSources
                THEN "checked_in_and_out"
                ELSE IF h.hour_source \in CheckinSources
                THEN "checked_in_only"
                ELSE IF h.hour_source \in ManagerSources
                THEN "manager_approved"
                ELSE "no_checkin_activity"

\* a pending log whose source holds only a kiosk check-in token has been
\* applied: has_checkin, no has_checkout, checkout_status 'checked_in_only'
C10_Witness ==
  /\ pc = "index"
  /\ hours[1].hour_status = "pending"
  /\ hours[1].hour_source = "Added at: /kiosk/storeCheckin/ by user 7533085"
  /\ HasEntry(shift_status, hours[1].user_id)
  /\ LET e == EntryOf(shift_status, hours[1].user_id)
     IN /\ e.hour_id = hours[1].id
        /\ e.has_checkin
        /\ ~e.has_checkout
        /\ e.checkout_status = "checked_in_only"

\* C6: a TimeLog whose shift identifier equals the identifier of a shift S1
\* of its Need is applied to S1 only: no other shift S2 of that Need carries
\* the log, even when the log's window matches S2.
C6_DirectMatchOnly ==
  pc \in {"save", "index"} =>
    \A j \in DOMAIN hours :
      ( /\ hours[j].shift_id # 0
        /\ \E i \in DOMAIN shift_status_list :
             /\ shift_status_list[i].need_id = hours[j].need_id
             /\ shift_status_list[i].id = IntKey(hours[j].shift_id) )
      =>
      \A i \in DOMAIN shift_status_list :
        ( /\ shift_status_list[i].need_id = hours[j].need_id
          /\ shift_status_list[i].id # IntKey(hours[j].shift_id) )
        =>
        \A u \in DOMAIN shift_status_list[i].users :
          shift_status_list[i].users[u].hour_id # hours[j].id

\* a log that refers to one shift and has exactly the window of another
\* shift of the Need has been applied to the shift it refers to
C6_Witness ==
  /\ pc = "save"
  /\ \E j \in DOMAIN hours :
       \E i1, i2 \in DOMAIN shift_status_list :
         /\ i1 # i2
         /\ shift_status_list[i1].need_id = hours[j].need_id
         /\ shift_status_list[i2].need_id = hours[j].need_id
         /\ shift_status_list[i1].id = IntKey(hours[j].shift_id)
         /\ hours[j].hour_date_start = shift_status_list[i2].start
         /\ hours[j].hour_date_end = shift_status_list[i2].end
         /\ \E u \in DOMAIN shift_status_list[i1].users :
              shift_status_list[i1].users[u].hour_id = hours[j].id

\* the (shift, volunteer, checkin_status) triples of a batch
BatchStatuses(list) ==
  UNION {{<<list[i].id, list[i].users[u].id, list[i].users[u].checkin_status>> :
            u \in DOMAIN list[i].users} : i \in DOMAIN list}

\* two signups of one volunteer for one shift
DuplicateSignups(r1, r2) ==
  /\ r1.need_id = r2.need_id
  /\ r1.shift_id = r2.shift_id
  /\ r1.user_id = r2.user_id

\* two logs of one volunteer that match a common shift of the batch
LogsOfOneEntry(list, h1, h2) ==
  /\ h1.need_id = h2.need_id
  /\ h1.user_id = h2.user_id
  /\ Range(MatchingShifts(list, h1.need_id, h1))
       \cap Range(MatchingShifts(list, h2.need_id, h2)) # {}

\* the orders in which the store may return seq that differ from seq only
\* in the relative order of records related by Rel
Reorderings(seq, Rel(_, _)) ==
  {[i \in DOMAIN seq |-> seq[p[i]]] :
     p \in {q \in [DOMAIN seq -> DOMAIN seq] :
              /\ \A i, j \in DOMAIN seq : i # j => q[i] # q[j]
              /\ \A i, j \in DOMAIN seq :
                   (i < j /\ q[i] > q[j]) => Rel(seq[q[i]], seq[q[j]])}}

\* C7: the checkin_status of every (shift, volunteer) does not depend on the
\* order in which duplicate signups of one volunteer for one shift, or
\* several matching logs of one volunteer for one shift, are returned by the
\* store.
C7_OrderIndependent ==
  pc = "save" =>
    LET bare == CreateShiftsFromNeeds(future_only, now)
    IN \A rs \in Reorderings(responses, DuplicateSignups) :
         \A hs \in Reorderings(hours, LAMBDA h1, h2 : LogsOfOneEntry(bare, h1, h2)) :
           BatchStatuses(CorrelateHoursToShifts(
                           AssignUsersFromResponses(bare, rs), hs))
             = BatchStatuses(shift_status_list)

CheckinStatuses == {"pending", "active", "completed", "absent", "cancelled"}

\* at most one user entry per volunteer, each with a status of the domain
WellFormedUsers(doc) ==
  /\ \A u1, u2 \in DOMAIN doc.users :
       doc.users[u1].id = doc.users[u2].id => u1 = u2
  /\ \A u \in DOMAIN doc.users : doc.users[u].checkin_status \in CheckinStatuses

\* C8: every ShiftStatus, in memory after the Signup Binder and after the
\* Time-Log Correlator and persisted, has at most one user entry per volunteer
\* identifier, and its checkin_status is one of pending, active, completed,
\* absent, cancelled.
C8_OneEntryPerVolunteer ==
  /\ \A i \in DOMAIN shift_status_list : WellFormedUsers(shift_status_list[i])
  /\ \A k \in DOMAIN shift_status : WellFormedUsers(shift_status[k])

\* a persisted record holds the single entry of a volunteer who signed up
\* twice for the shift and whose log was applied to the entry
C8_Witness ==
  \E k \in DOMAIN shift_status :
    \E u \in DOMAIN shift_status[k].users :
      LET v == shift_status[k].users[u].id
      IN /\ shift_status[k].users[u].hour_id # 0
         /\ \E r1, r2 \in DOMAIN responses :
              /\ r1 # r2
              /\ IntKey(responses[r1].shift_id) = k
              /\ IntKey(responses[r2].shift_id) = k
              /\ responses[r1].user_id = v
              /\ responses[r2].user_id = v

\* the collection the Writer loop of the current run started from
BeforeWrite == IF fresh_shift_data THEN EmptyCollection ELSE prev_shift_status

\* the synthetic shifts the synthesizer of the current run built
SyntheticBatch ==
  LET saved == SaveLoop(BeforeWrite, NoStats, shift_status_list, 1,
                        storage_failures).db
      hs    == ApprovedHours(hours)
  IN SyntheticShifts(saved, hs, GroupKeys(hs, 1, <<>>), 1)

\* C11: after a Writer pass every in-memory ShiftStatus with an identifier,
\* regular or synthetic, is the one record under its identifier, with every
\* field equal to the in-memory value and no user entry of the previous
\* version left; it was inserted when the key was absent before the write
\* and updated otherwise.
C11_WriterUpsert ==
  (pc = "index" /\ shift_status_list # <<>>) =>
    LET ids == {shift_status_list[i].id : i \in DOMAIN shift_status_list}
    IN /\ \A i \in DOMAIN shift_status_list :
            Truthy(shift_status_list[i].id) =>
              /\ shift_status_list[i].id \in DOMAIN shift_status
              /\ shift_status[shift_status_list[i].id] = shift_status_list[i]
       /\ \A j \in DOMAIN SyntheticBatch :
            /\ SyntheticBatch[j].id \in DOMAIN shift_status
            /\ shift_status[SyntheticBatch[j].id] = SyntheticBatch[j]
       /\ stats.inserted_count = Cardinality(ids \ DOMAIN BeforeWrite)
       /\ stats.updated_count = Cardinality(ids \cap DOMAIN BeforeWrite)
       /\ \A k \in DOMAIN BeforeWrite \ (ids \cup Range([j \in DOMAIN SyntheticBatch |-> SyntheticBatch[j].id])) :
            k \in DOMAIN shift_status /\ shift_status[k] = BeforeWrite[k]

\* a run has updated a record whose previous version held a user entry that
\* the new version does not hold, and has inserted a synthetic record
C11_Witness ==
  /\ pc = "index"
  /\ \E i \in DOMAIN shift_status_list :
       LET k == shift_status_list[i].id
       IN /\ k \in DOMAIN BeforeWrite
          /\ \E u \in DOMAIN BeforeWrite[k].users :
               BeforeWrite[k].users[u] \notin Range(shift_status_list[i].users)
  /\ stats.synthetic_inserted > 0

(***************************************************************************)
(* One call over a store some earlier calls have left: the derived         *)
(* collection holds what an earlier run wrote, the sources have changed    *)
(* since, a source collection may be gone, storage calls may raise.  The   *)
(* Writer is also entered directly with a batch holding a record without   *)
(* id.                                                                     *)
(***************************************************************************)
\* the derived collection after one run over ns, rs, hs from an empty one
EarlierRun(ns, rs, hs) ==
  SaveShiftStatusData(
    EmptyCollection,
    CorrelateHoursToShifts(AssignUsersFromResponses(ExtractFrom(ns, 1), rs), hs),
    hs, FALSE, {}).db

PersistedPool ==
  {EmptyCollection,
   EarlierRun(<<NeedWithShifts>>, <<Response(10, 101, 1, "inactive")>>, <<>>),
   EarlierRun(<<NeedWithShifts>>, <<Response(10, 102, 2, "Active")>>,
              <<Hour(1003, 10, 2, 0, 1000, 1100, "approved", 2, 1, 1, "")>>),
   \* log 1001 as first entered, at times that match no shift
   EarlierRun(<<NeedWithShifts>>, <<>>,
              <<Hour(1001, 10, 1, 0, 1000, 1100, "approved", 2, 1, 1, "")>>)}

\* batches handed to _save_shift_status_data: a record without id among them
WriterBatches ==
  LET s101 == [BasicShiftStatus(NeedWithShifts, Shift(101, 540, 660, 0))
                 EXCEPT !.users = <<UserEntry(1, "pending")>>,
                        !.slots_filled = 1]
      s102 == BasicShiftStatus(NeedWithShifts, Shift(102, 780, 900, 2))
      noid == BasicShiftStatus(NeedWithShifts, Shift(0, 540, 660, 0))
  IN {<<noid, s101>>, <<s101, noid, s102>>, <<s102, s101>>}

InitRun ==
  /\ needs \in NeedConfigs \cup {<<>>}
  /\ responses \in {<<>>, <<Response(10, 101, 1, "active")>>}
  /\ hours \in {<<>>,
                <<Hour(1001, 10, 1, 0, 545, 660, "approved", 2, 1, 1, "")>>,
                <<Hour(1002, 10, 1, 0, 1000, 1100, "approved", 2, 1, 1, "")>>}
  /\ collections \in {RequiredCollections,
                      RequiredCollections \ {"needs"},
                      RequiredCollections \ {"hours"},
                      RequiredCollections \ {"responses"}}
  /\ "needs" \in collections <=> needs # <<>>
  /\ "hours" \notin collections => hours = <<>>
  /\ "responses" \notin collections => responses = <<>>
  /\ shift_status \in PersistedPool
  /\ sync_metadata = 0
  /\ fresh_shift_data \in BOOLEAN
  /\ \/ pc = "idle" /\ shift_status_list = <<>>
     \/ /\ pc = "save"
        /\ shift_status_list \in WriterBatches
        /\ collections = RequiredCollections
  /\ future_only = FALSE
  /\ now = 1
  /\ stats = NoStats
  /\ runs = MaxRuns - 1
  /\ rerun = FALSE
  /\ prev_shift_status = shift_status
  /\ storage_failures = {}
  /\ workers = <<>>
  /\ api_request = NoRequest

NextRun ==
  \/ SkipGeneration(FALSE)
  \/ StartGeneration(FALSE)
  \/ Extract
  \/ Assign
  \/ Correlate
  \/ \E fails \in SUBSET DOMAIN shift_status_list : Save(fails)
  \/ Finish

SpecRun == InitRun /\ [][NextRun]_vars

\* the positions of the batch whose record has no identifier
WithoutId == {i \in DOMAIN shift_status_list : ~Truthy(shift_status_list[i].id)}

\* C12: the Writer does not abort the batch on one record's failure: when a
\* storage call of a record raises or a record has no identifier, every other
\* record is still written, processed_count + error_count is the batch size
\* and inserted_count + updated_count <= processed_count.
C12_WriterContinues ==
  pc = "index" =>
    /\ stats.processed_count + stats.error_count = Len(shift_status_list)
    /\ stats.inserted_count + stats.updated_count <= stats.processed_count
    /\ shift_status_list # <<>> =>
         stats.error_count = Cardinality(WithoutId \cup storage_failures)
    /\ \A i \in DOMAIN shift_status_list \ (WithoutId \cup storage_failures) :
         /\ shift_status_list[i].id \in DOMAIN shift_status
         /\ shift_status[shift_status_list[i].id] = shift_status_list[i]

\* a batch of three: the first record's storage call raised, the second has
\* no identifier, the third was written
C12_Witness ==
  /\ pc = "index"
  /\ Len(shift_status_list) = 3
  /\ storage_failures = {1}
  /\ WithoutId = {2}
  /\ stats.processed_count = 1
  /\ stats.error_count = 2
  /\ shift_status_list[3].id \in DOMAIN shift_status

\* the keys of the records the current run has written
WrittenByRun ==
  IF shift_status_list = <<>> THEN {}
  ELSE {shift_status_list[i].id :
          i \in DOMAIN shift_status_list \ (WithoutId \cup storage_failures)}
       \cup {SyntheticBatch[j].id : j \in DOMAIN SyntheticBatch}

\* C13: with fresh_shift_data set, after the Writer the derived collection
\* holds only records written by the current run, whatever the size of the
\* batch; with the option not set no record of the collection is deleted.
C13_FreshMode ==
  pc = "index" =>
    /\ fresh_shift_data => DOMAIN shift_status \subseteq WrittenByRun
    /\ ~fresh_shift_data => DOMAIN prev_shift_status \subseteq DOMAIN shift_status

\* C14: when one of the needs, responses or hours collections is absent, a
\* call of _generate_shift_status returns without running any step and
\* leaves the derived collection and the 'shift_status' sync metadata as
\* they were.
C14_ConfigurationFailure ==
  [][(/\ pc = "idle"
      /\ ~(RequiredCollections \subseteq collections)
      /\ runs' = runs + 1)
     => /\ pc' = "idle"
        /\ shift_status' = shift_status
        /\ sync_metadata' = sync_metadata
        /\ stats' = stats]_vars

\* a call has returned over a store without one of the collections, in
\* fresh mode, and the records of the earlier run are still there
C14_Witness ==
  /\ pc = "idle"
  /\ rerun
  /\ runs = MaxRuns
  /\ ~(RequiredCollections \subseteq collections)
  /\ fresh_shift_data
  /\ shift_status # EmptyCollection
  /\ shift_status = prev_shift_status
  /\ sync_metadata = 0

\* the user entries of volunteer user_id in the record doc
EntriesOf(doc, user_id) ==
  {doc.users[u] : u \in {x \in DOMAIN doc.users : doc.users[x].id = user_id}}

\* the status the rules give a log whose duration counts as 0
StatusWithoutDuration(h) ==
  IF h.hour_status \in DenialTexts THEN "cancelled"
  ELSE IF h.hour_status \in ApprovalTexts THEN "completed"
  ELSE IF h.hour_date_created # 0 /\ h.hour_date_updated # 0
          /\ h.hour_date_created # h.hour_date_updated THEN "completed"
  ELSE "active"

\* C15: a log whose duration cannot be coerced to a number does not stop the
\* correlator: when it is the last log applied to its volunteer's entry the
\* entry carries the status derived with the duration taken as 0, and every
\* other log of the same Need is still applied to the shifts it matches.
C15_UnparsableDuration ==
  pc = "save" =>
    \A j \in DOMAIN hours :
      hours[j].hour_duration = Unparsable =>
        /\ \A i \in Range(MatchingShifts(shift_status_list, hours[j].need_id, hours[j])) :
             (\A k \in DOMAIN hours :
                (k > j /\ hours[k].user_id = hours[j].user_id) =>
                  i \notin Range(MatchingShifts(shift_status_list, hours[k].need_id, hours[k])))
             => \E e \in EntriesOf(shift_status_list[i], hours[j].user_id) :
                  e.checkin_status = StatusWithoutDuration(hours[j])
        /\ \A k \in DOMAIN hours \ {j} :
             hours[k].need_id = hours[j].need_id =>
               \A i \in Range(MatchingShifts(shift_status_list, hours[k].need_id, hours[k])) :
                 \E e \in EntriesOf(shift_status_list[i], hours[k].user_id) :
                   e.hour_id # 0

(***************************************************************************)
(* Two calls of _save_shift_status_data running concurrently over the same *)
(* batch: the background report task and the /shifts/checkin-status        *)
(* handler.  Every storage call is one atomic step; the steps of the two   *)
(* calls interleave.                                                       *)
(***************************************************************************)
Workers == {1, 2}

\* the variables a step of the Writer or of the synthesizer leaves alone
nonstore == <<needs, responses, hours, collections, sync_metadata,
              fresh_shift_data, pc, future_only, now, shift_status_list, stats,
              runs, rerun, prev_shift_status, storage_failures,
              api_request>>

\* the locals of one call: position, loop index, result of find_one, group
\* index and the list synthetic_shifts
Worker(p, i, found, g, syn) ==
  [pc |-> p, i |-> i, found |-> found, g |-> g, syn |-> syn]

\* need_user_hours: the groups of the aggregation over the hours
NeedUserHours == GroupKeys(ApprovedHours(hours), 1, <<>>)

\* the early return on an empty batch, else delete_many({}) in fresh mode
WorkerBegin(w) ==
  /\ workers[w].pc = "begin"
  /\ IF shift_status_list = <<>>
     THEN /\ workers' = [workers EXCEPT ![w].pc = "done"]
          /\ UNCHANGED shift_status
     ELSE /\ workers' = [workers EXCEPT ![w].pc = "find", ![w].i = 1]
          /\ shift_status' = IF fresh_shift_data THEN EmptyCollection
                             ELSE shift_status
  /\ UNCHANGED nonstore

\* existing = find_one({"_id": shift_id})
WorkerFind(w) ==
  /\ workers[w].pc = "find"
  /\ workers' = [workers EXCEPT
       ![w].found = shift_status_list[workers[w].i].id \in DOMAIN shift_status,
       ![w].pc = "write"]
  /\ UNCHANGED <<shift_status, nonstore>>

\* what update_one (existing found) or insert_one (not found) of doc does to
\* the collection now: an update matching nothing and an insert raising
\* DuplicateKeyError leave it alone
StoreNow(db, found, doc) ==
  IF found
  THEN IF doc.id \in DOMAIN db THEN Put(db, doc.id, doc) ELSE db
  ELSE IF doc.id \in DOMAIN db THEN db ELSE Put(db, doc.id, doc)

\* update_one or insert_one of the record, then the next record or the
\* synthesizer
WorkerWrite(w) ==
  /\ workers[w].pc = "write"
  /\ shift_status' = StoreNow(shift_status, workers[w].found,
                              shift_status_list[workers[w].i])
  /\ workers' =
       IF workers[w].i < Len(shift_status_list)
       THEN [workers EXCEPT ![w].pc = "find", ![w].i = @ + 1]
       ELSE [workers EXCEPT ![w].pc = "guard", ![w].g = 1, ![w].syn = <<>>]
  /\ UNCHANGED nonstore

\* one pass of `for combo in need_user_hours`: the count_documents guard and
\* the building of the synthetic shift
WorkerGuard(w) ==
  /\ workers[w].pc = "guard"
  /\ IF workers[w].g > Len(NeedUserHours)
     THEN workers' = [workers EXCEPT
            ![w].pc = IF workers[w].syn = <<>> THEN "done" ELSE "synfind",
            ![w].i = 1]
     ELSE LET need_id    == NeedUserHours[workers[w].g][1]
              user_id    == NeedUserHours[workers[w].g][2]
              hours_list == SelectSeq(ApprovedHours(hours), LAMBDA h :
                              h.need_id = need_id /\ h.user_id = user_id)
          IN workers' = [workers EXCEPT
               ![w].g = @ + 1,
               ![w].syn = IF SkipsGroup(shift_status, need_id, user_id, hours_list)
                          THEN @
                          ELSE Append(@, SyntheticShift(need_id, user_id,
                                                        hours_list))]
  /\ UNCHANGED <<shift_status, nonstore>>

\* existing = find_one({"_id": shift["_id"]}) of a synthetic shift
WorkerSynFind(w) ==
  /\ workers[w].pc = "synfind"
  /\ workers' = [workers EXCEPT
       ![w].found = workers[w].syn[workers[w].i].id \in DOMAIN shift_status,
       ![w].pc = "synwrite"]
  /\ UNCHANGED <<shift_status, nonstore>>

\* update_one or insert_one of a synthetic shift
WorkerSynWrite(w) ==
  /\ workers[w].pc = "synwrite"
  /\ shift_status' = StoreNow(shift_status, workers[w].found,
                              workers[w].syn[workers[w].i])
  /\ workers' =
       IF workers[w].i < Len(workers[w].syn)
       THEN [workers EXCEPT ![w].pc = "synfind", ![w].i = @ + 1]
       ELSE [workers EXCEPT ![w].pc = "done"]
  /\ UNCHANGED nonstore

InitConcurrent ==
  /\ needs \in NeedConfigs
  /\ responses \in {<<>>, <<Response(10, 101, 1, "active")>>}
  /\ hours \in {<<>>,
                <<Hour(1001, 10, 1, 0, 545, 660, "approved", 2, 1, 1, "")>>,
                <<Hour(1002, 10, 1, 0, 1000, 1100, "approved", 2, 1, 1, "")>>,
                <<Hour(1001, 10, 1, 0, 545, 660, "approved", 2, 1, 1, ""),
                  Hour(1005, 10, 2, 0, 600, 800, "approved", 2, 1, 1, "")>>}
  /\ collections = RequiredCollections
  /\ shift_status \in PersistedPool
  /\ sync_metadata = 0
  /\ fresh_shift_data \in BOOLEAN
  /\ pc = "save"
  /\ future_only = FALSE
  /\ now = 1
  /\ shift_status_list =
       CorrelateHoursToShifts(
         AssignUsersFromResponses(ExtractFrom(needs, 1), responses), hours)
  /\ stats = NoStats
  /\ runs = MaxRuns
  /\ rerun = FALSE
  /\ prev_shift_status = shift_status
  /\ storage_failures = {}
  /\ workers = [w \in Workers |-> Worker("begin", 0, FALSE, 0, <<>>)]
  /\ api_request = NoRequest

NextConcurrent ==
  \E w \in Workers :
    \/ WorkerBegin(w)
    \/ WorkerFind(w)
    \/ WorkerWrite(w)
    \/ WorkerGuard(w)
    \/ WorkerSynFind(w)
    \/ WorkerSynWrite(w)

SpecConcurrent == InitConcurrent /\ [][NextConcurrent]_vars

\* the derived collection one call alone leaves
SequentialResult ==
  SaveShiftStatusData(prev_shift_status, shift_status_list, hours,
                      fresh_shift_data, {}).db

\* C16: two concurrent runs over the same source snapshot need no lock: when
\* both have ended, under every interleaving of their find, insert, update
\* and guard steps, the derived collection equals the one a single
\* sequential run produces.
C16_ConcurrentRuns ==
  (\A w \in Workers : workers[w].pc = "done") =>
    shift_status = SequentialResult

\* the log matches none of the denial, approval, positive-duration and
\* created-differs-from-updated rules
MatchesNoRule(h) ==
  /\ h.hour_status \notin DenialTexts \cup ApprovalTexts
  /\ h.hour_duration = 0
  /\ ~(h.hour_date_created # 0 /\ h.hour_date_updated # 0
       /\ h.hour_date_created # h.hour_date_updated)

\* the volunteer's signup for shift 101 is inactive
InactiveSignup(user_id) ==
  \E r \in DOMAIN responses :
    /\ responses[r].user_id = user_id
    /\ responses[r].shift_id = 101
    /\ responses[r].response_status \in {"inactive", "INACTIVE"}

\* C17: a log that matches none of the denial, approval, positive-duration
\* and created-differs-from-updated rules leaves the volunteer 'cancelled'
\* when the volunteer's signup for the shift is inactive and 'active'
\* otherwise.
C17_InactiveSignupRule ==
  (pc = "index" /\ MatchesNoRule(hours[1])) =>
    /\ HasEntry(shift_status, hours[1].user_id)
    /\ EntryOf(shift_status, hours[1].user_id).checkin_status =
         IF InactiveSignup(hours[1].user_id) THEN "cancelled" ELSE "active"

\* the time that orders the logs of one volunteer: creation, else update,
\* else start
RecencyKey(h) ==
  IF h.hour_date_created # 0 THEN h.hour_date_created
  ELSE IF h.hour_date_updated # 0 THEN h.hour_date_updated
  ELSE h.hour_date_start

\* the positions of the logs of volunteer user_id that match shift i of the
\* batch
MatchingLogs(i, user_id) ==
  {k \in DOMAIN hours :
     /\ hours[k].user_id = user_id
     /\ i \in Range(MatchingShifts(shift_status_list, hours[k].need_id, hours[k]))}

\* C18: when several logs of one volunteer match the same shift, the
\* volunteer's entry carries the status and the linked log of the most
\* recent one, whatever the order in which the logs are processed.
C18_MostRecentLogWins ==
  pc = "save" =>
    \A i \in DOMAIN shift_status_list :
      \A j \in DOMAIN hours :
        LET logs == MatchingLogs(i, hours[j].user_id)
        IN (/\ j \in logs
            /\ Cardinality(logs) > 1
            /\ \A k \in logs \ {j} : RecencyKey(hours[k]) < RecencyKey(hours[j]))
           => \E e \in EntriesOf(shift_status_list[i], hours[j].user_id) :
                /\ e.hour_id = hours[j].id
                /\ e.checkin_status = HourCheckinStatus(hours[j])

(***************************************************************************)
(* One run over one log whose window ranges over the positions a window    *)
(* can take against the shifts of two needs.                               *)
(***************************************************************************)
\* need 20: a shift with the window of shift 101 and a shift just after
\* midnight of the next day
NeedAcrossMidnight ==
  Need(20, <<Shift(201, 540, 660, 1), Shift(202, 1450, 1500, 1)>>, 0, 0)

\* (hour_date_start, hour_date_end)
LogWindows ==
  {<<540, 660>>,    \* the window of shifts 101 and 201
   <<545, 650>>,    \* inside it
   <<600, 700>>,    \* starting inside it
   <<500, 560>>,    \* ending inside it
   <<530, 910>>,    \* around shifts 101 and 102
   <<650, 790>>,    \* from inside shift 101 into shift 102
   <<480, 530>>,    \* before shift 101, starts 60 minutes apart
   <<470, 530>>,    \* before shift 101, starts 70 minutes apart
   <<660, 780>>,    \* between shifts 101 and 102
   <<720, 770>>,    \* before shift 102, starts 60 minutes apart
   <<1400, 1430>>,  \* the evening before shift 202, starts 50 minutes apart
   <<1980, 2100>>}  \* the time of day of shift 101, one day later

InitMatch ==
  /\ needs = <<NeedWithShifts, NeedAcrossMidnight>>
  /\ responses = <<>>
  /\ hours \in
       {<<Hour(3001, n, 1, sid, w[1], w[2], "approved", 2, 1, 1, "")>> :
          n \in {10, 20}, sid \in {0, 999}, w \in LogWindows}
  /\ collections = RequiredCollections
  /\ shift_status = EmptyCollection
  /\ sync_metadata = 0
  /\ fresh_shift_data = FALSE
  /\ pc = "idle"
  /\ future_only = FALSE
  /\ now = 1
  /\ shift_status_list = <<>>
  /\ stats = NoStats
  /\ runs = MaxRuns - 1
  /\ rerun = FALSE
  /\ prev_shift_status = EmptyCollection
  /\ storage_failures = {}
  /\ workers = <<>>
  /\ api_request = NoRequest

NextMatch ==
  \/ StartGeneration(FALSE)
  \/ Extract
  \/ Assign
  \/ Correlate
  \/ Save({})
  \/ Finish

SpecMatch == InitMatch /\ [][NextMatch]_vars

\* the log window h against the shift window s: exact equality, containment,
\* overlap, or the same calendar date with starts at most one hour apart
WindowRule(h, s) ==
  LET hs == h.hour_date_start
      he == h.hour_date_end
  IN \/ hs = s.start /\ he = s.end
     \/ s.start <= hs /\ he <= s.end
     \/ s.start <= hs /\ hs < s.end
     \/ s.start < he /\ he <= s.end
     \/ hs <= s.start /\ s.end <= he
     \/ /\ hs \div MinutesPerDay = s.start \div MinutesPerDay
        /\ hs - s.start <= 60
        /\ s.start - hs <= 60

\* the log has been applied to the record doc
AppliedTo(h, doc) ==
  \E e \in EntriesOf(doc, h.user_id) : e.hour_id = h.id

AfterWriterLoop ==
  SaveLoop(BeforeWrite, NoStats, shift_status_list, 1, storage_failures).db

\* some persisted record of the Need holds an entry of the volunteer whose
\* own checkin_status is 'completed'
OwnCompleted(db, need_id, user_id) ==
  \E k \in DOMAIN db :
    /\ db[k].need_id = need_id
    /\ \E e \in EntriesOf(db[k], user_id) : e.checkin_status = "completed"

\* the (Need, volunteer) groups of the logs whose status is 'approved'
ApprovedGroups ==
  {<<hours[j].need_id, hours[j].user_id>> :
     j \in {x \in DOMAIN hours : hours[x].hour_status = "approved"}}

\* C20: the synthesizer skips a (Need, volunteer) group of approved logs if
\* and only if a persisted record of the Need holds an entry of that
\* volunteer whose own status is 'completed': the groups it writes are
\* those without such an entry.
C20_OrphanGuard ==
  (pc = "index" /\ shift_status_list # <<>>) =>
    stats.synthetic_inserted + stats.synthetic_updated =
      Cardinality({g \in ApprovedGroups :
                     ~OwnCompleted(AfterWriterLoop, g[1], g[2])})

(***************************************************************************)
(* One run of _generate_shift_status(future_only) over needs of several    *)
(* shapes: structured shifts, shifts of two needs, flat date fields only,  *)
(* the allow-listed need, and a 'now' before, between and after the        *)
(* shifts.                                                                 *)
(***************************************************************************)
\* need 20 with one shift that carries the identifier of shift 101 of need 10
NeedSharingShiftId == Need(20, <<Shift(101, 540, 660, 1)>>, 0, 0)

\* need 30 with flat need_date_start / need_date_end and no shifts list
NeedWithFlatDates == Need(30, <<>>, 540, 660)

\* the allow-listed need, with flat date fields and no shifts list
ProblematicNeed == Need(ProblematicNeedId, <<>>, 540, 660)

ExtractConfigs ==
  {<<NeedWithShifts>>,
   <<NeedWithShifts, NeedAcrossMidnight>>,
   <<NeedWithShifts, NeedSharingShiftId>>,
   <<NeedWithFlatDates>>,
   <<NeedWithFlatDates, ProblematicNeed>>}

InitExtract ==
  /\ needs \in ExtractConfigs
  /\ responses = <<>>
  /\ hours \in
       {<<>>,
        <<Hour(1001, 10, 1, 0, 545, 660, "approved", 2, 1, 1, "")>>,
        <<Hour(4001, ProblematicNeedId, 1, 0, 545, 660, "approved", 2, 1, 1, ""),
          Hour(4002, ProblematicNeedId, 2, 0, 2000, 2100, "pending", 0, 1, 1, "")>>}
  /\ collections = RequiredCollections
  /\ shift_status = EmptyCollection
  /\ sync_metadata = 0
  /\ fresh_shift_data = FALSE
  /\ pc = "idle"
  /\ future_only = FALSE
  /\ now \in {1, 700, 1000}
  /\ shift_status_list = <<>>
  /\ stats = NoStats
  /\ runs = MaxRuns - 1
  /\ rerun = FALSE
  /\ prev_shift_status = EmptyCollection
  /\ storage_failures = {}
  /\ workers = <<>>
  /\ api_request = NoRequest

NextExtract ==
  \/ \E f \in BOOLEAN : StartGeneration(f)
  \/ Extract
  \/ Assign
  \/ Correlate
  \/ Save({})
  \/ Finish

SpecExtract == InitExtract /\ [][NextExtract]_vars

\* C21: no two distinct shifts handled in one run, regular, synthesized per
\* day or orphan synthetic, are stored under the same key: after the Writer
\* every shift of the batch is the record under its own key and no synthetic
\* key is the key of a shift of the batch.
C21_DistinctKeys ==
  pc = "index" =>
    /\ \A i, j \in DOMAIN shift_status_list :
         i # j => shift_status_list[i].id # shift_status_list[j].id
    /\ \A i \in DOMAIN shift_status_list :
         /\ shift_status_list[i].id \in DOMAIN shift_status
         /\ shift_status[shift_status_list[i].id] = shift_status_list[i]
    /\ \A k \in DOMAIN shift_status :
         shift_status[k].sync_source = "synthetic" =>
           \A i \in DOMAIN shift_status_list : shift_status_list[i].id # k

\* C22: in every run that is not skipped for missing collections the Orphan
\* Synthesizer has executed exactly once when the Writer is done, after the
\* correlation pass, also when the Extractor produced an empty batch.
C22_SynthesizerRunsOnce ==
  pc = "index" => stats.synthesizer_runs = 1

NoStructuredShifts == \A i \in DOMAIN needs : needs[i].shifts = <<>>

FlatNeeds ==
  {i \in DOMAIN needs : /\ needs[i].id # 0
                        /\ needs[i].need_date_start # 0
                        /\ needs[i].need_date_end # 0}

RecordsOfNeed(need_id) ==
  {j \in DOMAIN shift_status_list : shift_status_list[j].need_id = need_id}

\* C23: Extractor fallback: when no Need has a non-empty structured shift
\* list, each Need with flat start/end fields and an identifier yields exactly
\* one bare record for the Need itself, with an empty user list.
C23_ExtractorFallback ==
  (pc = "assign" /\ NoStructuredShifts) =>
    \A i \in FlatNeeds :
      /\ Cardinality(RecordsOfNeed(needs[i].id)) = 1
      /\ \A j \in RecordsOfNeed(needs[i].id) : shift_status_list[j].users = <<>>

\* C24: future-only mode: every record produced by the Shift Extractor in a
\* run with future_only = true starts at or after the run's 'now', also when
\* the Need of an earlier shift has a later shift.
C24_FutureOnly ==
  (pc = "assign" /\ future_only) =>
    \A j \in DOMAIN shift_status_list : shift_status_list[j].start >= now

\* the users list of a shift after the Signup Binder has processed the first
\* n signups of the shift
UsersAfter(rs, n) == AddResponseUsers(<<>>, SubSeq(rs, 1, n), 1)

\* C25: Signup Binder with duplicate signups: once a volunteer has an entry
\* in a shift, a further signup of that volunteer for the shift adds no second
\* entry and changes the entry's status only when the existing status is
\* 'absent' and the new provisional status is not 'absent'; a 'pending' or
\* 'cancelled' entry is never changed by a later signup.
C25_DuplicateSignup ==
  pc = "correlate" =>
    \A i \in DOMAIN shift_status_list :
      LET rs == ResponsesOfShift(responses, shift_status_list[i])
      IN /\ shift_status_list[i].users = UsersAfter(rs, Len(rs))
         /\ \A n \in DOMAIN rs :
              LET before      == UsersAfter(rs, n - 1)
                  after       == UsersAfter(rs, n)
                  k           == UserIndex(before, rs[n].user_id)
                  provisional == InitialCheckinStatus(rs[n].response_status)
              IN k # 0 =>
                   /\ Len(after) = Len(before)
                   /\ \A u \in DOMAIN before : u # k => after[u] = before[u]
                   /\ after[k].id = before[k].id
                   /\ after[k].checkin_status # before[k].checkin_status
                        <=> /\ before[k].checkin_status = "absent"
                            /\ provisional # "absent"
                            /\ after[k].checkin_status = provisional
                   /\ before[k].checkin_status \in {"pending", "cancelled"}
                        => after[k] = before[k]

\* the Signup Binder has processed an active and then an inactive signup of
\* one volunteer for one shift, and the shift holds the volunteer's single
\* entry, still 'pending'
C25_Witness ==
  /\ pc = "correlate"
  /\ \E i \in DOMAIN shift_status_list :
       LET rs == ResponsesOfShift(responses, shift_status_list[i])
       IN /\ Len(rs) = 2
          /\ rs[1].user_id = rs[2].user_id
          /\ InitialCheckinStatus(rs[1].response_status) = "pending"
          /\ InitialCheckinStatus(rs[2].response_status) = "cancelled"
          /\ Len(shift_status_list[i].users) = 1
          /\ shift_status_list[i].users[1].checkin_status = "pending"

\* the signup statuses, lower-cased, of a volunteer for a shift of the batch
SignupStatusesOf(shift, user_id) ==
  LET rs == ResponsesOfShift(responses, shift)
  IN {Lower(rs[n].response_status) :
        n \in {m \in DOMAIN rs : /\ rs[m].user_id = user_id
                                 /\ rs[m].response_status # ""}}

\* the entries of a shift of the batch to which no TimeLog was applied
EntriesWithoutLog(shift) ==
  {u \in DOMAIN shift.users : shift.users[u].hour_id = 0}

SyntheticKeys ==
  {k \in DOMAIN shift_status : shift_status[k].sync_source = "synthetic"}

\* slots, slots_filled, the single entry and its status, as C27 states them
SyntheticShape(doc) ==
  /\ doc.slots = 1
  /\ doc.slots_filled = 1
  /\ Len(doc.users) = 1
  /\ doc.users[1].checkin_status = "completed"
  /\ doc.users[1].has_checkin
  /\ doc.users[1].has_checkout
  /\ doc.users[1].has_manager_approval

\* C27 as stated: every synthetic ShiftStatus created by the Orphan
\* Synthesizer has slots = 1, slots_filled = 1, provenance tag 'synthetic' and
\* exactly one user entry, 'completed', whose flags has_checkin, has_checkout,
\* has_manager_approval and has_kiosk_activity are all true.
C27_Original ==
  \A k \in SyntheticKeys :
    /\ SyntheticShape(shift_status[k])
    /\ shift_status[k].users[1].has_kiosk_activity

\* C27 amended: every synthetic ShiftStatus created by the Orphan Synthesizer
\* has slots = 1, slots_filled = 1, provenance tag 'synthetic' and exactly one
\* user entry, 'completed', with has_checkin, has_checkout and
\* has_manager_approval true and has_kiosk_activity false.
C27_SyntheticRecord ==
  \A k \in SyntheticKeys :
    /\ k.kind = "str"
    /\ SyntheticShape(shift_status[k])
    /\ ~shift_status[k].users[1].has_kiosk_activity

\* the Orphan Synthesizer has created a record for an approved log that
\* matches no shift
C27_Witness ==
  /\ pc = "index"
  /\ stats.synthetic_inserted > 0
  /\ SyntheticKeys # {}

\* C28: in default (non-fresh) mode a run never removes a record from the
\* derived collection: at every step of a run, and after it, every shift key
\* persisted before the run is still persisted, whatever the sources have
\* become since the earlier runs.
C28_DefaultModeKeepsRecords ==
  ~fresh_shift_data => DOMAIN prev_shift_status \subseteq DOMAIN shift_status

\* a synthetic record written by an earlier run is still persisted after a
\* default-mode run in which its log was applied to a regular shift
C28_Witness ==
  /\ pc = "index"
  /\ ~fresh_shift_data
  /\ \E k \in DOMAIN prev_shift_status :
       /\ prev_shift_status[k].sync_source = "synthetic"
       /\ k \in DOMAIN shift_status
       /\ \E i \in DOMAIN shift_status_list :
            /\ shift_status_list[i].sync_source = "aggregation"
            /\ shift_status_list[i].id \in DOMAIN shift_status
            /\ \E u \in DOMAIN shift_status[shift_status_list[i].id].users :
                 shift_status[shift_status_list[i].id].users[u].hour_id
                   = prev_shift_status[k].users[1].hour_id

(***************************************************************************)
(* The query tool's repairs of the derived collection: fix_checkin_status  *)
(* and simple_fix_need of query-tool.py, run between reconciliation runs.  *)
(***************************************************************************)
\* the _id MongoDB generates for a document inserted without one
OidKey(n) == [kind |-> "oid", i |-> n, s |-> ""]

\* update_one({"_id", "users.id": user_id},
\*            {"$set": {"users.$.checkin_status": "completed"}})
\* for every record of the collection and every (need_id, user_id) of keys
CompleteEntries(db, keys) ==
  [k \in DOMAIN db |->
     [db[k] EXCEPT !.users =
        [u \in DOMAIN @ |->
           IF /\ <<db[k].need_id, @[u].id>> \in keys
              /\ @[u].id # 0
              /\ u = UserIndex(@, @[u].id)
           THEN [@[u] EXCEPT !.checkin_status = "completed"]
           ELSE @[u]]]]

\* the synthetic shift fix_checkin_status builds for one group
DirectFixShift(need_id, user_id, hours_list) ==
  LET first_hour     == hours_list[1]
      total_duration == SumSeq([j \in DOMAIN hours_list |->
                                  FloatOrZero(hours_list[j].hour_duration)], 1)
      user_entry ==
        [id |-> user_id, checkin_status |-> "completed",
         hour_id |-> first_hour.id, hour_status |-> "approved",
         hour_duration |-> StrVal(total_duration)]
  IN [id           |-> SyntheticShiftId(need_id, user_id, first_hour.id),
      start        |-> first_hour.hour_date_start,
      end          |-> first_hour.hour_date_end,
      duration     |-> StrVal(total_duration),
      slots        |-> 1,
      need_id      |-> need_id,
      users        |-> <<user_entry>>,
      slots_filled |-> 1,
      sync_source  |-> "direct_fix"]

RECURSIVE DirectFixShifts(_, _, _, _)
\* the second loop of fix_checkin_status: the list synthetic_shifts
DirectFixShifts(db, hs, keys, g) ==
  IF g > Len(keys) THEN <<>>
  ELSE
    LET need_id    == keys[g][1]
        user_id    == keys[g][2]
        hours_list == SelectSeq(hs, LAMBDA h :
                        h.need_id = need_id /\ h.user_id = user_id)
    IN (IF \/ AlreadyCompleted(db, need_id, user_id)
           \/ hours_list[1].id = 0
           \/ hours_list[1].hour_date_start = 0
           \/ hours_list[1].hour_date_end = 0
        THEN <<>>
        ELSE <<DirectFixShift(need_id, user_id, hours_list)>>)
       \o DirectFixShifts(db, hs, keys, g + 1)

RECURSIVE InsertMany(_, _, _)
\* insert_many of documents without _id
InsertMany(db, docs, i) ==
  IF i > Len(docs) THEN db
  ELSE InsertMany(Put(db, OidKey(Cardinality(DOMAIN db) + 1), docs[i]),
                  docs, i + 1)

\* fix_checkin_status(db) on collection db, reading hours hrs
FixCheckinStatusOn(db, hrs) ==
  LET hs      == ApprovedHours(hrs)
      keys    == GroupKeys(hs, 1, <<>>)
      updated == CompleteEntries(db, Range(keys))
  IN InsertMany(updated, DirectFixShifts(updated, hs, keys, 1), 1)

\* simple_fix_need(db, need_id) on collection db, reading hours hrs
SimpleFixNeedOn(db, hrs, need_id) ==
  CompleteEntries(db, {key \in Range(GroupKeys(ApprovedHours(hrs), 1, <<>>)) :
                         key[1] = need_id})

FixCheckinStatus ==
  /\ pc = "idle"
  /\ shift_status' = FixCheckinStatusOn(shift_status, hours)
  /\ UNCHANGED <<sources, sync_metadata, fresh_shift_data, runvars, runs,
                 history, workers,
                 api_request>>

SimpleFixNeed(need_id) ==
  /\ pc = "idle"
  /\ shift_status' = SimpleFixNeedOn(shift_status, hours, need_id)
  /\ UNCHANGED <<sources, sync_metadata, fresh_shift_data, runvars, runs,
                 history, workers,
                 api_request>>

InitFix ==
  /\ needs = <<NeedWithShifts>>
  /\ responses \in {<<>>} \cup
       {<<Response(10, 101, 1, s)>> : s \in {"active", "inactive", "waitlist"}}
  /\ hours \in
       {<<>>,
        <<Hour(1001, 10, 1, 0, 545, 660, "approved", 2, 1, 1, "")>>,
        <<Hour(1002, 10, 1, 0, 1000, 1100, "approved", 2, 1, 1, "")>>,
        <<Hour(1004, 10, 1, 0, 545, 660, "denied", 2, 2, 2, ""),
          Hour(1002, 10, 1, 0, 1000, 1100, "approved", 2, 1, 1, "")>>,
        <<Hour(1003, 10, 2, 0, 1000, 1100, "Approved", 2, 1, 1, ""),
          Hour(1002, 10, 1, 0, 1000, 1100, "approved", Unparsable, 1, 1, "")>>}
  /\ collections = RequiredCollections
  /\ shift_status = EmptyCollection
  /\ sync_metadata = 0
  /\ fresh_shift_data = FALSE
  /\ pc = "idle"
  /\ future_only = FALSE
  /\ now = 1
  /\ shift_status_list = <<>>
  /\ stats = NoStats
  /\ runs = MaxRuns - 1
  /\ rerun = FALSE
  /\ prev_shift_status = EmptyCollection
  /\ storage_failures = {}
  /\ workers = <<>>
  /\ api_request = NoRequest

NextFix ==
  \/ StartGeneration(FALSE)
  \/ Extract
  \/ Assign
  \/ Correlate
  \/ Save({})
  \/ Finish
  \/ FixCheckinStatus
  \/ SimpleFixNeed(10)

SpecFix == InitFix /\ [][NextFix]_vars

\* C29: every operation that changes a user entry's checkin_status in a
\* persisted ShiftStatus recomputes the record's slots_filled in the same
\* step: after a reconciliation run and after the query tool's
\* fix_checkin_status and simple_fix_need, slots_filled of every persisted
\* record equals the count of its non-cancelled users.
C29_FixRecomputesSlots ==
  \A k \in DOMAIN shift_status :
    shift_status[k].slots_filled = NonCancelled(shift_status[k].users)

(***************************************************************************)
(* _make_api_request: the retry loop over the replies of the upstream API, *)
(* called by _sync_resource for every page.                                *)
(***************************************************************************)
\* max_retries = 3
MaxRetries == 3

\* what one requests.get can come back with: a status code (with what the
\* branch of that code depends on), or an exception of requests
Replies ==
  {"200", "200_invalid_json", "429", "429_retry_after_not_int", "401",
   "401_login_raises", "500", "404_no_results", "404", "403",
   "connection_error"}

\* the `except requests.exceptions.RequestException` branch
ExceptBranch(attempt) ==
  IF attempt < MaxRetries - 1 THEN "continue" ELSE "raise"

\* how the body of the loop ends for one reply; caught says whether the
\* error of response.json() is a RequestException in the installed requests
AttemptOutcome(reply, attempt, caught) ==
  CASE reply = "429"                     -> "continue"
    [] reply = "429_retry_after_not_int" -> "raise"
    [] reply = "401"                     -> "continue"
    [] reply = "401_login_raises"        -> ExceptBranch(attempt)
    [] reply = "500"                     -> ExceptBranch(attempt)
    [] reply = "404_no_results"          -> "return_empty"
    [] reply = "404"                     -> ExceptBranch(attempt)
    [] reply = "403"                     -> ExceptBranch(attempt)
    [] reply = "connection_error"        -> ExceptBranch(attempt)
    [] reply = "200"                     -> "return"
    [] reply = "200_invalid_json"        ->
         IF caught THEN ExceptBranch(attempt) ELSE "raise"

\* response = self._make_api_request(resource_name, query_params) is called
MakeApiRequest ==
  /\ api_request.pc = "idle"
  /\ api_request' = [NoRequest EXCEPT !.pc = "loop"]
  /\ UNCHANGED <<sources, shift_status, sync_metadata, fresh_shift_data,
                 runvars, runs, history, workers>>

\* one iteration of `for attempt in range(max_retries)`, and the end of the
\* call when the body returns, raises or was the last iteration
ApiAttempt(reply, caught) ==
  /\ api_request.pc = "loop"
  /\ api_request.attempt < MaxRetries
  /\ LET outcome == AttemptOutcome(reply, api_request.attempt, caught)
         logins  == IF reply \in {"401", "401_login_raises"}
                    THEN api_request.logins + 1 ELSE api_request.logins
         replies == Append(api_request.replies, reply)
     IN api_request' =
          CASE outcome = "return" ->
                 [api_request EXCEPT !.pc = "returned", !.replies = replies,
                                     !.result = "response.json()"]
            [] outcome = "return_empty" ->
                 [api_request EXCEPT !.pc = "returned", !.replies = replies,
                                     !.result = "{'data': []}"]
            [] outcome = "raise" ->
                 [api_request EXCEPT !.pc = "raised", !.replies = replies,
                                     !.logins = logins]
            [] outcome = "continue" ->
                 IF api_request.attempt + 1 < MaxRetries
                 THEN [api_request EXCEPT !.attempt = @ + 1,
                                          !.replies = replies,
                                          !.logins = logins]
                 ELSE [api_request EXCEPT !.pc = "returned",
                                          !.attempt = @ + 1,
                                          !.replies = replies,
                                          !.logins = logins,
                                          !.result = "None"]
  /\ UNCHANGED <<sources, shift_status, sync_metadata, fresh_shift_data,
                 runvars, runs, history, workers>>

\* _sync_resource goes on with the value or the exception of the call
SyncResourceResumes ==
  /\ api_request.pc \in {"returned", "raised"}
  /\ api_request' = NoRequest
  /\ UNCHANGED <<sources, shift_status, sync_metadata, fresh_shift_data,
                 runvars, runs, history, workers>>

InitRequest ==
  /\ needs = <<NeedWithShifts>>
  /\ responses = <<>>
  /\ hours = <<>>
  /\ collections = RequiredCollections
  /\ shift_status = EmptyCollection
  /\ sync_metadata = 0
  /\ fresh_shift_data = FALSE
  /\ pc = "idle"
  /\ future_only = FALSE
  /\ now = 1
  /\ shift_status_list = <<>>
  /\ stats = NoStats
  /\ runs = MaxRuns
  /\ rerun = FALSE
  /\ prev_shift_status = EmptyCollection
  /\ storage_failures = {}
  /\ workers = <<>>
  /\ api_request = NoRequest

NextRequest ==
  \/ MakeApiRequest
  \/ \E reply \in Replies, caught \in BOOLEAN : ApiAttempt(reply, caught)
  \/ SyncResourceResumes

SpecRequest == InitRequest /\ [][NextRequest]_vars

\* C30: _make_api_request makes at most 3 HTTP attempts and ends in one of
\* two outcomes only, for every sequence of replies: it returns a parsed
\* response dictionary or it raises; it never falls out of the retry loop
\* returning no value to _sync_resource.
C30_RequestOutcome ==
  /\ Len(api_request.replies) <= MaxRetries
  /\ api_request.pc = "returned" => api_request.result # "None"

====
